---- MODULE Spec2Model ----
(***************************************************************************)
(* Bitrix24 channel plugin: the inbound webhook pipeline                   *)
(* (src/src/webhook.ts) and the rate-limited REST client                   *)
(* (src/unnamed/part_005, second Bitrix24Client class).                    *)
(*                                                                         *)
(* One webhook request is followed from the arrival of its body to the     *)
(* HTTP response and beyond (the agent dispatcher is not cancelled by the  *)
(* timeout and may go on calling the deliver callback).  The event loop    *)
(* is modelled at the granularity of its await points: each action is one  *)
(* run-to-completion turn of the handler, of a REST call, of a timer or    *)
(* of the dispatcher collaborator.                                         *)
(***************************************************************************)
EXTENDS Integers, Sequences, FiniteSets, TLC

----------------------------------------------------------------------------
(* Bounds of the model *)

\* Date.now() when the request arrives (any value >= minWait behaves alike)
Epoch == 5000
\* granularity of the small clock steps, in ms
Step == 500
\* number of small clock steps (jumps to the next timer deadline are free)
MaxTicks == 1
\* number of deliver callbacks the dispatcher invokes for one event
MaxDelivers == 2
\* length of the secrets whose comparison is followed character by character
SecretLen == 3

----------------------------------------------------------------------------
(* Program constants *)

\* rateLimit.minWait, part_005:438
minWait == 1000
\* DISPATCH_TIMEOUT_MS, webhook.ts:494
DISPATCH_TIMEOUT_MS == 300000
\* COMMAND_TIMEOUT_MS, webhook.ts:685
COMMAND_TIMEOUT_MS == 180000
\* "File IDs are high numbers (>690000)", webhook.ts:265
FileIdThreshold == 690000

----------------------------------------------------------------------------
(* JavaScript values *)

\* undefined / null: an absent field, a missing query parameter
UNDEF == "<undefined>"
\* !v for the string-valued fields of the payload
Falsy(v) == v \in {UNDEF, ""}
Truthy(v) == ~Falsy(v)
\* a || b
Or(a, b) == IF Truthy(a) THEN a ELSE b

\* texts are sequences of characters; trim() leaves nothing iff all of them
\* are whitespace
Whitespace == {" ", "\n", "\t"}
IsBlank(t) == \A i \in DOMAIN t : t[i] \in Whitespace

----------------------------------------------------------------------------
(* Inputs: the request body, the ?secret= query parameter, the configuration *)

MessageEvents == {"ONIMMESSAGEADD", "ONIMBOTMESSAGEADD"}
CommandEvent == "ONIMCOMMANDADD"

Texts == {<<>>, <<" ">>, <<"h", "i">>}
Hi == <<"h", "i">>
Hello == <<"h", "e", "l", "l", "o">>
HiBack == <<"h", "i", " ", "b", "a", "c", "k">>

\* what the agent hands to a deliver callback as payload.text
Replies == {<<>>, <<" ">>, HiBack}

\* the data part of a payload, whatever its encoding: PARAMS.FROM_USER_ID,
\* AUTHOR_ID, USER.ID, BOT.BOT_ID (COMMAND.BOT_ID for a command), PARAMS.MESSAGE,
\* PARAMS.FILES, PARAMS.PARAMS, PARAMS.ATTACH, the length of data.ATTACHMENTS,
\* PARAMS.DIALOG_ID,
\* COMMAND.COMMAND, COMMAND.COMMAND_ID, PARAMS.MESSAGE_ID; 0 stands for an
\* absent number
NoFields ==
  [fromUserId |-> UNDEF, authorId |-> UNDEF, userId |-> UNDEF, botId |-> UNDEF, message |-> <<>>,
   files |-> 0, fileRef |-> 0, attach |-> 0, attachmentsLen |-> 0,
   dialogId |-> UNDEF, command |-> UNDEF, commandId |-> UNDEF, messageId |-> UNDEF]

Msg(u, v, b, t, f, r, a) ==
  [NoFields EXCEPT !.fromUserId = u, !.userId = v, !.botId = b, !.message = t,
                   !.files = f, !.fileRef = r, !.attach = a]

Cmd(u, b, c, i, m) ==
  [NoFields EXCEPT !.fromUserId = u, !.botId = b, !.command = c,
                   !.commandId = i, !.messageId = m]

\* who wrote the message and which bot the payload names
IdentityFields ==
  { Msg(x[1], x[2], x[3], Hi, 0, 0, 0) :
      x \in { <<"42", UNDEF, "7">>, <<UNDEF, "42", "7">>, <<"7", UNDEF, UNDEF>>,
              <<"7", UNDEF, "7">>, <<"7", "42", "7">>, <<UNDEF, "7", "7">>,
              <<UNDEF, UNDEF, "7">>, <<UNDEF, UNDEF, UNDEF>> } }

\* what the message carries: text, FILES, PARAMS file id, ATTACH
ContentFields ==
  { Msg("42", UNDEF, "7", x[1], x[2], x[3], x[4]) :
      x \in { <<<<>>, 0, 0, 0>>, <<<<" ">>, 0, 0, 0>>, <<<<>>, 0, 12, 0>>,
              <<<<>>, 0, 0, 700002>>, <<<<>>, 1, 700001, 0>>,
              <<<<>>, 0, 700001, 0>>, <<Hi, 0, 700001, 0>>,
              <<Hi, 1, 700001, 700001>>, <<Hi, 0, 0, 700002>>,
              <<<<>>, 1, 700001, 700002>> } }

\* the author named by AUTHOR_ID, another one by USER.ID
AuthorIdMessage == [Msg(UNDEF, "42", "7", Hi, 0, 0, 0) EXCEPT !.authorId = "7"]
AuthorIdCommand ==
  [Cmd(UNDEF, "7", "help", "9", "55") EXCEPT !.userId = "42", !.authorId = "7"]

\* event=ONIMMESSAGEADD&data[PARAMS][MESSAGE]=hello&data[PARAMS][FROM_USER_ID]=42
HelloFrom42 == Msg("42", UNDEF, UNDEF, Hello, 0, 0, 0)

\* no text, only the data.ATTACHMENTS list
AttachmentsOnly ==
  [Msg("42", UNDEF, "7", <<>>, 0, 0, 0) EXCEPT !.attachmentsLen = 1]

CommandFields ==
  { Cmd(x[1], x[2], x[3], x[4], x[5]) :
      x \in { <<"42", "7", "help", "9", "55">>, <<"7", "7", "help", "9", "55">>,
              <<"42", "7", "help", UNDEF, "55">>, <<"42", UNDEF, "help", UNDEF, UNDEF>>,
              <<UNDEF, "7", "help", "9", "55">>, <<"42", "7", UNDEF, "9", "55">> } }

\* enc: "empty" (no body), "json" (starts with "{"), "form" (anything else);
\* wellFormed: JSON.parse accepts the text; event / hasData: the top-level
\* event field and whether any data is carried
Body(c, w, e, d, f) ==
  [enc |-> c, wellFormed |-> w, event |-> e, hasData |-> d, fields |-> f]

StructureBodies ==
  {Body("empty", TRUE, UNDEF, FALSE, NoFields)}
  \cup {Body("json", FALSE, e, TRUE, NoFields) : e \in {"ONIMMESSAGEADD", CommandEvent}}
  \cup {Body(c, TRUE, e, d, NoFields) :
          c \in {"json", "form"},
          e \in {UNDEF, "", "ONAPPINSTALL", "ONIMMESSAGEADD", CommandEvent},
          d \in BOOLEAN}

MessageBodies ==
  {Body("form", TRUE, "ONIMMESSAGEADD", TRUE, f) :
     f \in IdentityFields \cup ContentFields \cup {HelloFrom42}}
  \cup {Body("json", TRUE, "ONIMBOTMESSAGEADD", TRUE, f) :
          f \in IdentityFields \cup {AttachmentsOnly, AuthorIdMessage}}

CommandBodies ==
  {Body(c, TRUE, CommandEvent, TRUE, f) : c \in {"json", "form"}, f \in CommandFields}
  \cup {Body("json", TRUE, CommandEvent, TRUE, AuthorIdCommand)}

Secrets == {UNDEF, "", "s3cret", "s3cre"}

\* cfg.channels.bitrix24: absent, or its top-level domain / webhookSecret
Configs ==
  {[has |-> FALSE, domain |-> UNDEF, webhookSecret |-> UNDEF]}
  \cup
  {[has |-> TRUE, domain |-> d, webhookSecret |-> s] :
      d \in {UNDEF, "b24.example"}, s \in {UNDEF, "", "s3cret"}}

GoodConfig == [has |-> TRUE, domain |-> "b24.example", webhookSecret |-> "s3cret"]

\* the requests followed: every body with the right secret and a configured
\* account, and two bodies with every secret and every configuration
Requests ==
  {[body |-> b, secret |-> s, cfg |-> GoodConfig] :
      b \in StructureBodies \cup MessageBodies \cup CommandBodies,
      s \in {"s3cret"}}
  \cup
  {[body |-> b, secret |-> s, cfg |-> c] :
      b \in {Body("form", TRUE, "ONIMMESSAGEADD", TRUE, Msg("42", UNDEF, "7", Hi, 0, 0, 0)),
             Body("json", TRUE, CommandEvent, TRUE, Cmd("42", "7", "help", "9", "55")),
             Body("json", TRUE, "ONIMMESSAGEADD", FALSE, NoFields)},
      s \in Secrets, c \in Configs}

----------------------------------------------------------------------------
VARIABLES
  body,       \* the request body still to be read (Consumed afterwards)
  secret,     \* url.searchParams.get("secret")
  cfg,        \* what runtime.config.loadConfig() resolves to
  pc,         \* where handleBitrix24Webhook and the handler it awaits stand
  event,      \* the parsed body
  http,       \* the HTTP response: [status, at]; status 0 = not written yet
  verification, \* verifySecret for this event: "none", "ok", "failed", "error"
  trail,      \* the per-event states the event went through (Verifying: a
              \* handler has the event; Dispatching: inside the try block)
  now,        \* Date.now()
  ticks,      \* small clock steps taken so far
  client,     \* the Bitrix24Client of this request: rate-limit state, calls, log
  attachments, \* the attachment list being enriched
  idx,        \* index of the attachment loops
  disp,       \* the agent-dispatch collaborator
  timer,      \* withTimeout's timer
  outer,      \* withTimeout's promise
  sends,      \* what the deliver callback and the catch block asked the client to
              \* send: reply / fallback count the calls, replyOk is 1 once a
              \* reply call returned, last is the latest reply call
  unit        \* one function of the pipeline followed on its own (NoUnit
              \* while a webhook request is followed)

vars == <<body, secret, cfg, unit, pc, event, http, verification, trail, now, ticks,
          client, attachments, idx, disp, timer, outer, sends>>

NoUnit == [fn |-> "none"]

Consumed == [enc |-> "consumed"]
NoEvent == [threw |-> FALSE, event |-> UNDEF, hasData |-> FALSE, data |-> NoFields]

----------------------------------------------------------------------------
(* parseBody, webhook.ts:61-124 *)

\* a form-encoded body always yields event "" and data {PARAMS, USER, BOT}
\* and overwrites result.event when an event key is present; JSON yields what
\* the text holds, or throws
parseBody(b) ==
  CASE b.enc = "empty" -> NoEvent
    [] b.enc = "json" ->
         IF b.wellFormed
         THEN [threw |-> FALSE, event |-> b.event, hasData |-> b.hasData,
               data |-> IF b.hasData THEN b.fields ELSE NoFields]
         ELSE [NoEvent EXCEPT !.threw = TRUE]
    [] OTHER ->
         [threw |-> FALSE, event |-> IF b.event = UNDEF THEN "" ELSE b.event,
          hasData |-> TRUE,
          data |-> IF b.hasData THEN b.fields ELSE NoFields]

----------------------------------------------------------------------------
(* resolveBitrix24Account, accounts.ts:46-91, and verifySecret,
   webhook.ts:180-204 *)

resolveBitrix24Account(c) ==
  IF ~c.has
  THEN [domain |-> "", webhookSecret |-> ""]
  ELSE [domain |-> Or(c.domain, ""), webhookSecret |-> Or(c.webhookSecret, "")]

\* verifySecret that never compares the supplied secret with the stored one
verifySecret_NoCompare(s, loaded, c) ==
  loaded /\ Truthy(resolveBitrix24Account(c).domain)
         /\ Truthy(resolveBitrix24Account(c).webhookSecret)

\* verifySecret without the "account not configured" test
verifySecret_NoConfiguredCheck(s, loaded, c) ==
  loaded /\ Truthy(s) /\ s = resolveBitrix24Account(c).webhookSecret

\* loaded: runtime.config.loadConfig() resolved (a rejection is caught and
\* gives verified: false)
verifySecret(s, loaded, c) ==
  IF ~loaded THEN FALSE
  ELSE LET account == resolveBitrix24Account(c) IN
       IF Falsy(account.domain) \/ Falsy(account.webhookSecret) THEN FALSE
       ELSE IF Falsy(s) \/ s # account.webhookSecret THEN FALSE
       ELSE TRUE

----------------------------------------------------------------------------
(* The cheap checks of the handlers *)

\* a structure check that forgets the data field
StructureInvalid_EventOnly(ev) == Falsy(ev.event)

\* if (!event.event || !event.data), webhook.ts:146
StructureInvalid(ev) == Falsy(ev.event) \/ ~ev.hasData

\* fromUserId of a message, webhook.ts:248: FROM_USER_ID, then the AUTHOR_ID
\* fields, then USER.ID
FromUserId(d) == Or(d.fromUserId, Or(d.authorId, d.userId))

\* fromUserId of a command, webhook.ts:593: USER.ID before AUTHOR_ID
CommandFromUserId(d) == Or(d.fromUserId, Or(d.userId, d.authorId))

\* hasAttachment, webhook.ts:263-265
hasAttachment(d) == d.files > 0 \/ (d.fileRef # 0 /\ d.fileRef > FileIdThreshold)

\* early returns without the empty-message check
MessageDropped_NoEmptyCheck(d) ==
  \/ Falsy(FromUserId(d))
  \/ FromUserId(d) = d.botId

\* the three early returns of handleIncomingMessage, webhook.ts:258-278
MessageDropped(d) ==
  \/ Falsy(FromUserId(d))
  \/ IsBlank(d.message) /\ d.attachmentsLen = 0 /\ ~hasAttachment(d)
  \/ FromUserId(d) = d.botId

\* the early return of handleIncomingCommand, webhook.ts:603-606
CommandDropped(d) == Falsy(CommandFromUserId(d)) \/ Falsy(d.command)

\* hasAttachmentIndicator, webhook.ts:309-312
hasAttachmentIndicator(d) == d.files > 0 \/ (d.fileRef # 0 /\ IsBlank(d.message))

\* parseAttachments on the ATTACH field, webhook.ts:763-786
parseAttachments(d) ==
  IF d.attach # 0 THEN <<[id |-> d.attach, url |-> FALSE, content |-> FALSE]>>
  ELSE <<>>

\* the merge "avoiding duplicates by ID", webhook.ts:341-349
MergeAttachments(found, legacy) ==
  found \o SelectSeq(legacy, LAMBDA a : \A i \in DOMAIN found : found[i].id # a.id)

IsMessage == event.event \in MessageEvents

----------------------------------------------------------------------------
(* Bitrix24Client: callApi and waitForRateLimit, part_005:448-518 *)

Slots == {"typing", "fileget", "fileinfo", "deliver", "fallback"}
Idle == [st |-> "idle", wake |-> 0, method |-> ""]

NewClient == [lastRequestTime |-> 0, calls |-> [s \in Slots |-> Idle], log |-> <<>>]

\* how long waitForRateLimit sleeps when entered at time t
waitForRateLimit(last, t) ==
  IF t - last < minWait THEN minWait - (t - last) ELSE 0

\* the call passes the limiter: lastRequestTime = Date.now(), then fetch
StartCall(c, slot, method, t) ==
  [lastRequestTime |-> t,
   calls |-> [c.calls EXCEPT ![slot] = [st |-> "inflight", wake |-> 0, method |-> method]],
   log |-> Append(c.log, [slot |-> slot, method |-> method, at |-> t])]

\* callApi up to its first suspension
callApi(c, slot, method, t) ==
  LET w == waitForRateLimit(c.lastRequestTime, t) IN
  IF w > 0
  THEN [c EXCEPT !.calls[slot] = [st |-> "sleeping", wake |-> t + w, method |-> method]]
  ELSE StartCall(c, slot, method, t)

Busy(slot) == client.calls[slot].st \in {"sleeping", "inflight"}

----------------------------------------------------------------------------
(* Bitrix24Client: markdownToBb, sendMessage, answerCommand, and the deliver
   callbacks of the handlers that call them *)

\* a fence of three backticks, kept as one character of a text
Fence == "fence"

\* \w among the characters the texts are made of
WordChars == {"h", "i", "b", "a", "c", "k", "e", "l", "o"}

\* String.prototype.trim
RECURSIVE TrimLeft(_)
TrimLeft(t) ==
  IF t # <<>> /\ Head(t) \in Whitespace THEN TrimLeft(Tail(t)) ELSE t

RECURSIVE TrimRight(_)
TrimRight(t) ==
  IF t # <<>> /\ t[Len(t)] \in Whitespace
  THEN TrimRight(SubSeq(t, 1, Len(t) - 1))
  ELSE t

Trim(t) == TrimRight(TrimLeft(t))

\* [\w]* after the opening fence: greedy
RECURSIVE SkipWord(_, _)
SkipWord(t, p) ==
  IF p <= Len(t) /\ t[p] \in WordChars THEN SkipWord(t, p + 1) ELSE p

\* the trimmed code, each of its lines behind a tab
RECURSIVE IndentLines(_)
IndentLines(c) ==
  IF c = <<>> THEN <<>>
  ELSE IF Head(c) = "\n" THEN <<"\n", "\t">> \o IndentLines(Tail(c))
  ELSE <<Head(c)>> \o IndentLines(Tail(c))

\* the code-block replacement, part_005:1168-1171: fence, [\w]*, an optional
\* newline, the shortest run of anything, fence
RECURSIVE CodeBlocks(_)
CodeBlocks(t) ==
  IF \A x \in DOMAIN t : t[x] # Fence THEN t
  ELSE LET i == CHOOSE x \in DOMAIN t :
                  t[x] = Fence /\ \A y \in 1..(x - 1) : t[y] # Fence
           closes == {x \in (i + 1)..Len(t) : t[x] = Fence}
       IN IF closes = {} THEN t
          ELSE LET j == CHOOSE x \in closes : \A y \in closes : x <= y
                   w == SkipWord(t, i + 1)
                   st == IF w < j /\ t[w] = "\n" THEN w + 1 ELSE w
               IN SubSeq(t, 1, i - 1)
                  \o <<"\t">> \o IndentLines(Trim(SubSeq(t, st, j - 1)))
                  \o CodeBlocks(SubSeq(t, j + 1, Len(t)))

\* result.replace(/\n{3,}/g, "\n\n"), part_005:1225
RECURSIVE SqueezeNewlines(_)
SqueezeNewlines(t) ==
  IF Len(t) < 3 THEN t
  ELSE IF t[1] = "\n" /\ t[2] = "\n" /\ t[3] = "\n" THEN SqueezeNewlines(Tail(t))
  ELSE <<Head(t)>> \o SqueezeNewlines(Tail(t))

\* the pattern p is at position i of t
At(t, i, p) == i >= 1 /\ i + Len(p) - 1 <= Len(t) /\ SubSeq(t, i, i + Len(p) - 1) = p

\* t.replace(/open(.*?)close/g, "o2$1c2") for min = 0, /open(.+?)close/g for
\* min = 1: the leftmost open that has a close on its line, the nearest such
\* close, and on behind it
RECURSIVE ReplacePairs(_, _, _, _, _, _)
ReplacePairs(t, open, close, min, o2, c2) ==
  LET ends(i) == {j \in (i + Len(open) + min)..Len(t) :
                    At(t, j, close) /\ \A x \in (i + Len(open))..(j - 1) : t[x] # "\n"}
      starts == {i \in DOMAIN t : At(t, i, open) /\ ends(i) # {}}
  IN IF starts = {} THEN t
     ELSE LET i == CHOOSE x \in starts : \A y \in starts : x <= y
              j == CHOOSE x \in ends(i) : \A y \in ends(i) : x <= y
          IN SubSeq(t, 1, i - 1) \o o2 \o SubSeq(t, i + Len(open), j - 1) \o c2
             \o ReplacePairs(SubSeq(t, j + Len(close), Len(t)), open, close, min, o2, c2)

\* .replace(/\[url=(.*?)\](.*?)\[\/url\]/g, "[$2]($1)"), part_005:1154
RECURSIVE BbLinks(_)
BbLinks(t) ==
  LET open == <<"[", "u", "r", "l", "=">>
      close == <<"[", "/", "u", "r", "l", "]">>
      ends(i) == {e \in (DOMAIN t) \X (DOMAIN t) :
                    /\ e[1] >= i + 5 /\ t[e[1]] = "]"
                    /\ e[2] > e[1] /\ At(t, e[2], close)
                    /\ \A x \in (i + 5)..(e[2] - 1) : t[x] # "\n"}
      starts == {i \in DOMAIN t : At(t, i, open) /\ ends(i) # {}}
  IN IF starts = {} THEN t
     ELSE LET i == CHOOSE x \in starts : \A y \in starts : x <= y
              k == CHOOSE x \in {e[1] : e \in ends(i)} :
                     \A e \in ends(i) : x <= e[1]
              j == CHOOSE x \in {e[2] : e \in {d \in ends(i) : d[1] = k}} :
                     \A e \in {d \in ends(i) : d[1] = k} : x <= e[2]
          IN SubSeq(t, 1, i - 1) \o <<"[">> \o SubSeq(t, k + 1, j - 1) \o <<"]", "(">>
             \o SubSeq(t, i + 5, k - 1) \o <<")">>
             \o BbLinks(SubSeq(t, j + 6, Len(t)))

\* bbToMarkdown, part_005:1149-1156; "tick" is the inline-code mark of
\* markdown, kept as one character of a text
bbToMarkdown(text) ==
  LET pair(t, name, mark) ==
        ReplacePairs(t, <<"[">> \o name \o <<"]">>, <<"[", "/">> \o name \o <<"]">>,
                     0, mark, mark)
      b == pair(text, <<"b">>, <<"*", "*">>)
      i == pair(b, <<"i">>, <<"*">>)
      u == pair(i, <<"u">>, <<"_", "_">>)
  IN pair(BbLinks(u), <<"c", "o", "d", "e">>, <<"tick">>)

\* result.replace(/\[([^\]]+)\]\(([^)]+)\)/g, "[URL=$2]$1[/URL]"),
\* part_005:1184
RECURSIVE Links(_)
Links(t) ==
  LET first(c, from) ==
        IF \E x \in from..Len(t) : t[x] = c
        THEN CHOOSE x \in from..Len(t) : t[x] = c /\ \A y \in from..(x - 1) : t[y] # c
        ELSE 0
      close(i) == first("]", i + 1)
      paren(i) == first(")", close(i) + 2)
      starts == {i \in DOMAIN t :
                   /\ t[i] = "[" /\ close(i) >= i + 2
                   /\ close(i) < Len(t) /\ t[close(i) + 1] = "("
                   /\ paren(i) >= close(i) + 3}
  IN IF starts = {} THEN t
     ELSE LET i == CHOOSE x \in starts : \A y \in starts : x <= y
          IN SubSeq(t, 1, i - 1) \o <<"[", "U", "R", "L", "=">>
             \o SubSeq(t, close(i) + 2, paren(i) - 1) \o <<"]">>
             \o SubSeq(t, i + 1, close(i) - 1) \o <<"[", "/", "U", "R", "L", "]">>
             \o Links(SubSeq(t, paren(i) + 1, Len(t)))

\* http:// (or https://), kept as one character of a text
Scheme == "http://"

\* the raw-URL replacement, part_005:1189-1200, from position p on: a scheme
\* not behind = or ], the longest run of characters a URL may hold, its
\* trailing punctuation put behind the closing tag
RECURSIVE RawUrls(_, _)
RawUrls(t, p) ==
  IF p > Len(t) THEN <<>>
  ELSE LET stop == Whitespace \cup {"<", ">", "[", "]", "\"", "'"}
           punct == {")", "]", ".", ",", "!", "?", ";", ":", "'"}
           e == CHOOSE x \in p..Len(t) :
                  /\ \A y \in (p + 1)..x : t[y] \notin stop
                  /\ x = Len(t) \/ t[x + 1] \in stop
           c == CHOOSE x \in (p + 1)..(e + 1) :
                  /\ \A y \in x..e : t[y] \in punct
                  /\ x = p + 1 \/ t[x - 1] \notin punct
       IN IF t[p] = Scheme /\ (p = 1 \/ t[p - 1] \notin {"=", "]"}) /\ e > p
          THEN <<"[", "U", "R", "L", "]">> \o SubSeq(t, p, c - 1)
               \o <<"[", "/", "U", "R", "L", "]">> \o SubSeq(t, c, e)
               \o RawUrls(t, e + 1)
          ELSE <<t[p]>> \o RawUrls(t, p + 1)

\* result.replace(/(\s)\*([^*\n]+)\*(\s|$)/g, "$1[I]$2[/I]$3"), part_005:1203,
\* from position p on
RECURSIVE Italics(_, _)
Italics(t, p) ==
  IF p > Len(t) THEN <<>>
  ELSE LET stars == {x \in (p + 2)..Len(t) : t[x] = "*"}
           j == IF stars = {} THEN 0
                ELSE CHOOSE x \in stars : \A y \in stars : x <= y
       IN IF /\ t[p] \in Whitespace /\ p < Len(t) /\ t[p + 1] = "*"
             /\ j >= p + 3 /\ (\A x \in (p + 2)..(j - 1) : t[x] # "\n")
             /\ (j = Len(t) \/ t[j + 1] \in Whitespace)
          THEN <<t[p], "[", "I", "]">> \o SubSeq(t, p + 2, j - 1)
               \o <<"[", "/", "I", "]">>
               \o (IF j = Len(t) THEN <<>> ELSE <<t[j + 1]>>)
               \o Italics(t, j + 2)
          ELSE <<t[p]>> \o Italics(t, p + 1)

\* markdownToBb, part_005:1163-1234, on texts made of letters, whitespace,
\* fences, schemes, and the characters [ ] ( ) / = * . : code blocks, bold
\* (two asterisks), links, raw URLs, italic (one asterisk), blank lines, trim.
\* Its other replacements (headers, underscores, inline code, strikethrough,
\* tables, quotes; lists and rules on a line that starts with an asterisk or
\* a dash) find nothing to replace in the texts followed here
markdownToBb(t) ==
  LET bold == ReplacePairs(CodeBlocks(t), <<"*", "*">>, <<"*", "*">>, 1,
                           <<"[", "B", "]">>, <<"[", "/", "B", "]">>)
  IN Trim(SqueezeNewlines(Italics(RawUrls(Links(bold), 1), 1)))

\* parseInt(s, 10) of the id strings; NaN when s does not start with a digit
NaN == -1
Digits == [s \in {"0", "7", "9", "42", "55"} |->
             CASE s = "0" -> 0 [] s = "7" -> 7 [] s = "9" -> 9
               [] s = "42" -> 42 [] s = "55" -> 55]
parseInt(s) == IF s \in DOMAIN Digits THEN Digits[s] ELSE NaN

\* a REST call: the method and the parameters that matter here; 0 and UNDEF
\* stand for a parameter that is not set
NoCall ==
  [method |-> "none", DIALOG_ID |-> UNDEF, MESSAGE_ID |-> 0, COMMAND_ID |-> 0,
   COMMAND |-> UNDEF, MESSAGE |-> <<>>]

\* sendMessage, part_005:523-549
sendMessage(userId, text) ==
  [outcome |-> "call",
   call |-> [NoCall EXCEPT !.method = "imbot.message.add", !.DIALOG_ID = userId,
                           !.MESSAGE = markdownToBb(text)]]

\* answerCommand, part_005:1083-1132: commandId is a number (0: undefined)
answerCommand(commandId, command, messageId, message) ==
  LET base == [NoCall EXCEPT !.method = "imbot.command.answer",
                             !.MESSAGE_ID = messageId,
                             !.MESSAGE = markdownToBb(message)]
  IN IF commandId \notin {0, NaN}
     THEN [outcome |-> "call", call |-> [base EXCEPT !.COMMAND_ID = commandId]]
     ELSE IF Truthy(command)
     THEN [outcome |-> "call", call |-> [base EXCEPT !.COMMAND = command]]
     ELSE [outcome |-> "threw", call |-> NoCall]

\* payload.text || payload.body || payload.content || ""
PayloadText(p) ==
  IF p.text # <<>> THEN p.text ELSE IF p.body # <<>> THEN p.body ELSE p.content

\* a reply target taken from PARAMS.DIALOG_ID alone
ReplyDialogId_DialogOnly(isMsg, d) == d.dialogId

\* a reply target that is the event's dialog whenever the event names one
ReplyDialogId_DialogFirst(isMsg, d) ==
  Or(d.dialogId, IF isMsg THEN FromUserId(d) ELSE CommandFromUserId(d))

\* the reply target: replyDialogId, webhook.ts:490, and dialogId, webhook.ts:595
ReplyDialogId(isMsg, d) ==
  IF isMsg THEN FromUserId(d) ELSE Or(d.dialogId, CommandFromUserId(d))

\* the deliver callbacks, webhook.ts:506-530 and 697-726, up to the REST call
deliver(isMsg, d, payload) ==
  LET text == PayloadText(payload) IN
  IF IsBlank(text) THEN [outcome |-> "skipped", call |-> NoCall]
  ELSE IF isMsg THEN sendMessage(ReplyDialogId(isMsg, d), text)
  ELSE IF Truthy(d.messageId) /\ (Truthy(d.commandId) \/ Truthy(d.command))
  THEN answerCommand(IF Truthy(d.commandId) THEN parseInt(d.commandId) ELSE 0,
                     IF Truthy(d.commandId) THEN UNDEF ELSE d.command,
                     parseInt(d.messageId), text)
  ELSE sendMessage(ReplyDialogId(isMsg, d), text)

----------------------------------------------------------------------------
Init ==
  /\ \E r \in Requests : body = r.body /\ secret = r.secret /\ cfg = r.cfg
  /\ pc = "recv"
  /\ event = NoEvent
  /\ http = [status |-> 0, at |-> 0]
  /\ verification = "none"
  /\ trail = <<"Received">>
  /\ now = Epoch
  /\ ticks = 0
  /\ client = NewClient
  /\ attachments = <<>>
  /\ idx = 0
  /\ disp = [st |-> "none", at |-> 0, delivers |-> 0, err |-> "none", files |-> 0,
             described |-> 0, body |-> <<>>]
  /\ timer = [st |-> "none", deadline |-> 0]
  /\ outer = "none"
  /\ sends = [reply |-> 0, replyOk |-> 0, fallback |-> 0, wording |-> "none",
              last |-> NoCall]
  /\ unit = NoUnit

\* res.writeHead(status); res.end(...)
Respond(status) ==
  /\ http' = [status |-> status, at |-> now]
  /\ pc' = "done"

----------------------------------------------------------------------------
(* handleBitrix24Webhook, webhook.ts:129-175 *)

HandleWebhook_Parse ==
  /\ pc = "recv"
  /\ body' = Consumed
  /\ LET ev == parseBody(body) IN
       /\ event' = ev
       /\ IF ev.threw
          THEN Respond(500) /\ trail' = Append(trail, "Invalid")
          ELSE pc' = "structure" /\ UNCHANGED <<http, trail>>
  /\ UNCHANGED <<secret, cfg, unit, verification, now, ticks, client, attachments, idx,
                 disp, timer, outer, sends>>

HandleWebhook_Route ==
  /\ pc = "structure"
  /\ IF StructureInvalid(event)
     THEN Respond(400) /\ trail' = Append(trail, "Invalid")
     ELSE IF event.event \in MessageEvents
     THEN pc' = "msg" /\ trail' = Append(trail, "Verifying") /\ UNCHANGED http
     ELSE IF event.event = CommandEvent
     THEN pc' = "cmd" /\ trail' = Append(trail, "Verifying") /\ UNCHANGED http
     ELSE Respond(200) /\ trail' = Append(trail, "Ignored")
  /\ UNCHANGED <<body, secret, cfg, unit, event, verification, now, ticks, client,
                 attachments, idx, disp, timer, outer, sends>>

----------------------------------------------------------------------------
(* handleIncomingMessage and handleIncomingCommand up to verifySecret *)

HandleIncomingMessage_Checks ==
  /\ pc = "msg"
  /\ IF MessageDropped(event.data)
     THEN Respond(200) /\ trail' = Append(trail, "Rejected")
     ELSE pc' = "verify" /\ UNCHANGED <<http, trail>>
  /\ UNCHANGED <<body, secret, cfg, unit, event, verification, now, ticks, client,
                 attachments, idx, disp, timer, outer, sends>>

HandleIncomingCommand_Checks ==
  /\ pc = "cmd"
  /\ IF CommandDropped(event.data)
     THEN Respond(200) /\ trail' = Append(trail, "Rejected")
     ELSE pc' = "verify" /\ UNCHANGED <<http, trail>>
  /\ UNCHANGED <<body, secret, cfg, unit, event, verification, now, ticks, client,
                 attachments, idx, disp, timer, outer, sends>>

\* const { verified, account } = await verifySecret(secret, log);
\* if (!verified) return;
VerifySecret ==
  /\ pc = "verify"
  /\ \E loaded \in BOOLEAN :
       IF verifySecret(secret, loaded, cfg)
       THEN /\ verification' = "ok"
            /\ pc' = IF IsMessage THEN "m_start" ELSE "c_loadcfg"
            /\ trail' = Append(trail, "Enriching")
            /\ UNCHANGED http
       ELSE /\ verification' = IF loaded THEN "failed" ELSE "error"
            /\ Respond(200)
            /\ trail' = Append(trail, "Rejected")
  /\ UNCHANGED <<body, secret, cfg, unit, event, now, ticks, client, attachments, idx,
                 disp, timer, outer, sends>>

----------------------------------------------------------------------------
(* withTimeout, webhook.ts:209-225, and the catch blocks that follow it *)

\* a withTimeout that arms no timer
withTimeout_NoTimer(t, timeoutMs) == [st |-> "none", deadline |-> 0]

\* setTimeout(() => reject(...), timeoutMs)
withTimeout(t, timeoutMs) == [st |-> "armed", deadline |-> t + timeoutMs]

\* clearTimeout(timer)
clearTimeout(tm) == IF tm.st = "armed" THEN [tm EXCEPT !.st = "cleared"] ELSE tm

\* a promise that every resolve / reject settles anew
settle_LastWins(o, outcome) == outcome

\* resolve / reject of the promise withTimeout returns: the first one wins
settle(o, outcome) == IF o = "pending" THEN outcome ELSE o

TimeoutMs == IF IsMessage THEN DISPATCH_TIMEOUT_MS ELSE COMMAND_TIMEOUT_MS

\* errorMsg.includes("timeout"), webhook.ts:540 and 736; err is the kind of
\* message the rejection carries: withTimeout's own, which holds the word, or
\* the dispatcher's, which may ("timeoutword") or may not ("plain")
isTimeout(err) == err \in {"deadline", "timeoutword"}

\* a catch block that only logs
AfterDispatch_LogOnly(o, err) ==
  /\ Respond(200)
  /\ trail' = Append(trail, IF o = "resolved" THEN "Delivered"
                            ELSE IF o = "timeout" THEN "TimedOut" ELSE "Failed")
  /\ UNCHANGED <<client, sends>>

\* a catch block that runs although the dispatch succeeded
AfterDispatch_AlwaysFallback(o, err) ==
  /\ pc' = "fallback"
  /\ trail' = Append(trail, IF o = "resolved" THEN "Delivered"
                            ELSE IF o = "timeout" THEN "TimedOut" ELSE "Failed")
  /\ client' = callApi(client, "fallback", "imbot.message.add", now)
  /\ sends' = [sends EXCEPT !.fallback = @ + 1, !.wording = "generic"]
  /\ UNCHANGED http

\* the handler after `await withTimeout(...)`: return on success, else the
\* catch block, which sends the fallback message
AfterDispatch(o, err) ==
  IF o = "resolved"
  THEN /\ Respond(200)
       /\ trail' = Append(trail, "Delivered")
       /\ UNCHANGED <<client, sends>>
  ELSE /\ pc' = "fallback"
       /\ trail' = Append(trail, IF o = "timeout" THEN "TimedOut" ELSE "Failed")
       /\ client' = callApi(client, "fallback", "imbot.message.add", now)
       /\ sends' = [sends EXCEPT !.fallback = @ + 1,
                                 !.wording = IF isTimeout(err) THEN "timeout" ELSE "generic"]
       /\ UNCHANGED http

\* await withTimeout(dispatchReplyWithBufferedBlockDispatcher(...), ...); the
\* attachment list lives on in the context only (files: how many it holds,
\* described: how many of them with extracted content; body: the message text
\* its Body, RawBody and CommandBody carry)
StartDispatch ==
  /\ timer' = withTimeout(now, TimeoutMs)
  /\ disp' = [st |-> "running", at |-> now, delivers |-> 0, err |-> "none",
              files |-> Len(attachments),
              described |-> Cardinality({i \in DOMAIN attachments : attachments[i].content}),
              body |-> event.data.message]
  /\ attachments' = <<>>
  /\ idx' = 0
  /\ outer' = "pending"
  /\ pc' = "dispatching"
  /\ trail' = Append(trail, "Dispatching")

----------------------------------------------------------------------------
(* handleIncomingMessage after verification, webhook.ts:284-561 *)

\* new Bitrix24Client, the un-awaited sendTyping, and disk.file.get when the
\* payload points at a file
Message_Start ==
  /\ pc = "m_start"
  /\ LET typing == callApi(NewClient, "typing", "imbot.chat.sendTyping", now)
         d == event.data
     IN IF d.fileRef # 0 /\ hasAttachmentIndicator(d)
        THEN /\ client' = callApi(typing, "fileget", "disk.file.get", now)
             /\ pc' = "m_fileget"
             /\ UNCHANGED attachments
        ELSE /\ client' = typing
             /\ attachments' = MergeAttachments(<<>>, parseAttachments(d))
             /\ pc' = "m_loadcfg"
  /\ UNCHANGED <<body, secret, cfg, unit, event, http, verification, trail, now, ticks,
                 idx, disp, timer, outer, sends>>

\* const cfg = await runtime.config.loadConfig(), webhook.ts:360; a rejection
\* lands in the outer catch, which only logs
Message_LoadConfig ==
  /\ pc = "m_loadcfg"
  /\ \E loaded \in BOOLEAN :
       IF loaded
       THEN /\ pc' = IF attachments = <<>> THEN "m_route" ELSE "m_enh"
            /\ idx' = 1
            /\ UNCHANGED <<http, trail>>
       ELSE /\ Respond(200)
            /\ trail' = Append(trail, "Aborted")
            /\ UNCHANGED idx
  /\ UNCHANGED <<body, secret, cfg, unit, event, verification, now, ticks, client,
                 attachments, disp, timer, outer, sends>>

\* the loop over attachments that lack a URL, webhook.ts:368-380
Message_Enhance ==
  /\ pc = "m_enh"
  /\ IF idx > Len(attachments)
     THEN pc' = "m_proc" /\ idx' = 1 /\ UNCHANGED client
     ELSE IF attachments[idx].url
     THEN idx' = idx + 1 /\ UNCHANGED <<pc, client>>
     ELSE /\ client' = callApi(client, "fileinfo", "disk.file.get", now)
          /\ pc' = "m_info"
          /\ UNCHANGED idx
  /\ UNCHANGED <<body, secret, cfg, unit, event, http, verification, trail, now, ticks,
                 attachments, disp, timer, outer, sends>>

\* a loop in which a failed download or extraction reaches the outer catch
Message_Process_Propagating ==
  /\ pc = "m_proc"
  /\ IF idx > Len(attachments)
     THEN pc' = "m_route" /\ UNCHANGED <<idx, attachments, http>>
     ELSE \E content \in BOOLEAN :
            /\ content => attachments[idx].url
            /\ IF content
               THEN /\ attachments' = [attachments EXCEPT ![idx].content = content]
                    /\ idx' = idx + 1
                    /\ UNCHANGED <<pc, http>>
               ELSE /\ Respond(200)
                    /\ UNCHANGED <<idx, attachments>>
  /\ UNCHANGED <<body, secret, cfg, unit, event, verification, trail, now, ticks,
                 client, disp, timer, outer, sends>>

\* downloadAndProcessAttachment for each attachment, webhook.ts:395-407: no
\* URL gives null at once; otherwise the download and the extractor give a
\* description or null
Message_Process ==
  /\ pc = "m_proc"
  /\ IF idx > Len(attachments)
     THEN pc' = "m_route" /\ UNCHANGED <<idx, attachments>>
     ELSE \E content \in BOOLEAN :
            /\ content => attachments[idx].url
            /\ attachments' = [attachments EXCEPT ![idx].content = content]
            /\ idx' = idx + 1
            /\ UNCHANGED pc
  /\ UNCHANGED <<body, secret, cfg, unit, event, http, verification, trail, now, ticks,
                 client, disp, timer, outer, sends>>

\* resolveAgentRoute ... finalizeInboundContext, then the dispatch; a throw of
\* one of these collaborators lands in the outer catch
Message_Route ==
  /\ pc = "m_route"
  /\ \E routed \in BOOLEAN :
       IF routed
       THEN StartDispatch /\ UNCHANGED http
       ELSE /\ Respond(200)
            /\ trail' = Append(trail, "Aborted")
            /\ UNCHANGED <<disp, timer, outer, attachments, idx>>
  /\ UNCHANGED <<body, secret, cfg, unit, event, verification, now, ticks, client, sends>>

----------------------------------------------------------------------------
(* handleIncomingCommand after verification, webhook.ts:612-753: nothing
   catches a rejection of loadConfig or a throw of resolveAgentRoute, so it
   reaches the catch of handleBitrix24Webhook *)

Command_LoadConfig ==
  /\ pc = "c_loadcfg"
  /\ \E loaded \in BOOLEAN, routed \in BOOLEAN :
       IF loaded /\ routed
       THEN /\ client' = callApi(NewClient, "typing", "imbot.chat.sendTyping", now)
            /\ StartDispatch
            /\ UNCHANGED http
       ELSE /\ Respond(500)
            /\ trail' = Append(trail, "Aborted")
            /\ UNCHANGED <<client, disp, timer, outer, attachments, idx>>
  /\ UNCHANGED <<body, secret, cfg, unit, event, verification, now, ticks, sends>>

----------------------------------------------------------------------------
(* The REST calls in flight *)

\* the sleep of waitForRateLimit ends: lastRequestTime = Date.now(), fetch
Call_Wake ==
  \E slot \in Slots :
    /\ client.calls[slot].st = "sleeping"
    /\ now >= client.calls[slot].wake
    /\ client' = StartCall(client, slot, client.calls[slot].method, now)
    /\ UNCHANGED <<body, secret, cfg, unit, pc, event, http, verification, trail, now,
                   ticks, attachments, idx, disp, timer, outer, sends>>

\* the call returns (ok) or throws; the slots of awaited calls are free again
Finish(slot, ok) ==
  [client EXCEPT !.calls[slot] =
     IF slot \in {"typing", "fallback"}
     THEN [@ EXCEPT !.st = IF ok THEN "ok" ELSE "failed"]
     ELSE Idle]

\* a typing call whose failure ends the handling of the request
Typing_Complete_Throwing ==
  /\ client.calls["typing"].st = "inflight"
  /\ pc # "done"
  /\ \E ok \in BOOLEAN :
       /\ client' = Finish("typing", ok)
       /\ IF ok THEN UNCHANGED <<pc, http>> ELSE Respond(200)
  /\ UNCHANGED <<body, secret, cfg, unit, event, verification, trail, now,
                 ticks, attachments, idx, disp, timer, outer, sends>>

\* sendTyping catches its own failure, part_005:705-712
Typing_Complete ==
  /\ client.calls["typing"].st = "inflight"
  /\ \E ok \in BOOLEAN : client' = Finish("typing", ok)
  /\ UNCHANGED <<body, secret, cfg, unit, pc, event, http, verification, trail, now,
                 ticks, attachments, idx, disp, timer, outer, sends>>

\* disk.file.get of the PARAMS file id, webhook.ts:315-336
FileGet_Complete ==
  /\ pc = "m_fileget"
  /\ client.calls["fileget"].st = "inflight"
  /\ \E res \in {"failed", "nodata", "nourl", "url"} :
       /\ client' = Finish("fileget", res # "failed")
       /\ attachments' =
            MergeAttachments(
              IF res \in {"nourl", "url"}
              THEN <<[id |-> event.data.fileRef, url |-> res = "url", content |-> FALSE]>>
              ELSE <<>>,
              parseAttachments(event.data))
  /\ pc' = "m_loadcfg"
  /\ UNCHANGED <<body, secret, cfg, unit, event, http, verification, trail, now, ticks,
                 idx, disp, timer, outer, sends>>

\* fetchFileInfo, webhook.ts:900-925
FileInfo_Complete ==
  /\ pc = "m_info"
  /\ client.calls["fileinfo"].st = "inflight"
  /\ \E res \in {"failed", "nourl", "url"} :
       /\ client' = Finish("fileinfo", res # "failed")
       /\ attachments' = [attachments EXCEPT ![idx].url = (res = "url")]
  /\ idx' = idx + 1
  /\ pc' = "m_enh"
  /\ UNCHANGED <<body, secret, cfg, unit, event, http, verification, trail, now, ticks,
                 disp, timer, outer, sends>>

\* the send of a deliver callback returns or throws
Deliver_Complete ==
  /\ client.calls["deliver"].st = "inflight"
  /\ \E ok \in BOOLEAN :
       /\ client' = Finish("deliver", ok)
       /\ sends' = [sends EXCEPT !.replyOk = IF ok THEN 1 ELSE @]
  /\ UNCHANGED <<body, secret, cfg, unit, pc, event, http, verification, trail, now,
                 ticks, attachments, idx, disp, timer, outer>>

\* a fallback send whose failure leaves the handler as an exception
Fallback_Complete_Propagating ==
  /\ pc = "fallback"
  /\ client.calls["fallback"].st = "inflight"
  /\ \E ok \in BOOLEAN :
       /\ client' = Finish("fallback", ok)
       /\ Respond(IF ok THEN 200 ELSE 500)
  /\ trail' = Append(trail, "FallbackSent")
  /\ UNCHANGED <<body, secret, cfg, unit, event, verification, now, ticks, attachments,
                 idx, disp, timer, outer, sends>>

\* the fallback send returns or throws (logged only); the handler returns
Fallback_Complete ==
  /\ pc = "fallback"
  /\ client.calls["fallback"].st = "inflight"
  /\ \E ok \in BOOLEAN : client' = Finish("fallback", ok)
  /\ Respond(200)
  /\ trail' = Append(trail, "FallbackSent")
  /\ UNCHANGED <<body, secret, cfg, unit, event, verification, now, ticks, attachments,
                 idx, disp, timer, outer, sends>>

----------------------------------------------------------------------------
(* The agent-dispatch collaborator and the timer *)

\* the deliver callback, webhook.ts:506-530 and 697-726; the dispatcher
\* awaits it before it goes on
Dispatcher_Deliver ==
  /\ disp.st = "running"
  /\ disp.delivers < MaxDelivers
  /\ ~Busy("deliver")
  /\ \E text \in Replies :
       LET r == deliver(IsMessage, event.data,
                        [text |-> text, body |-> <<>>, content |-> <<>>])
       IN IF r.outcome = "call"
          THEN /\ client' = callApi(client, "deliver", r.call.method, now)
               /\ sends' = [sends EXCEPT !.reply = @ + 1, !.last = r.call]
          ELSE UNCHANGED <<client, sends>>
  /\ disp' = [disp EXCEPT !.delivers = @ + 1]
  /\ UNCHANGED <<body, secret, cfg, unit, pc, event, http, verification, trail, now,
                 ticks, attachments, idx, timer, outer>>

\* the dispatcher's promise settles; .then / .catch of withTimeout
Dispatcher_Settle ==
  /\ disp.st = "running"
  /\ ~Busy("deliver")
  /\ \E res \in {"resolved", "plain", "timeoutword"} :
       LET o == settle(outer, IF res = "resolved" THEN "resolved" ELSE "error") IN
       /\ disp' = [disp EXCEPT !.st = IF res = "resolved" THEN "resolved" ELSE "rejected",
                               !.err = IF res = "resolved" THEN "none" ELSE res]
       /\ timer' = clearTimeout(timer)
       /\ outer' = o
       /\ IF o # outer
          THEN AfterDispatch(o, res)
          ELSE UNCHANGED <<pc, http, trail, client, sends>>
  /\ UNCHANGED <<body, secret, cfg, unit, event, verification, now, ticks, attachments, idx>>

\* the timer of withTimeout fires
Timer_Fire ==
  /\ timer.st = "armed"
  /\ now >= timer.deadline
  /\ timer' = [timer EXCEPT !.st = "fired"]
  /\ LET o == settle(outer, "timeout") IN
       /\ outer' = o
       /\ IF o # outer
          THEN AfterDispatch(o, "deadline")
          ELSE UNCHANGED <<pc, http, trail, client, sends>>
  /\ UNCHANGED <<body, secret, cfg, unit, event, verification, now, ticks, attachments,
                 idx, disp>>

----------------------------------------------------------------------------
(* The clock: timers fire on time, everything else takes any time *)

Deadlines ==
  {client.calls[s].wake : s \in {x \in Slots : client.calls[x].st = "sleeping"}}
  \cup (IF timer.st = "armed" THEN {timer.deadline} ELSE {})

Tick ==
  /\ verification = "ok"
  /\ ticks < MaxTicks
  /\ \A x \in Deadlines : now + Step <= x
  /\ now' = now + Step
  /\ ticks' = ticks + 1
  /\ UNCHANGED <<body, secret, cfg, unit, pc, event, http, verification, trail, client,
                 attachments, idx, disp, timer, outer, sends>>

Jump ==
  /\ Deadlines # {}
  /\ \E x \in Deadlines :
       /\ \A y \in Deadlines : x <= y
       /\ x > now
       /\ now' = x
  /\ UNCHANGED <<body, secret, cfg, unit, pc, event, http, verification, trail, ticks,
                 client, attachments, idx, disp, timer, outer, sends>>

----------------------------------------------------------------------------
Next ==
  \/ HandleWebhook_Parse
  \/ HandleWebhook_Route
  \/ HandleIncomingMessage_Checks
  \/ HandleIncomingCommand_Checks
  \/ VerifySecret
  \/ Message_Start
  \/ Message_LoadConfig
  \/ Message_Enhance
  \/ Message_Process
  \/ Message_Route
  \/ Command_LoadConfig
  \/ Call_Wake
  \/ Typing_Complete
  \/ FileGet_Complete
  \/ FileInfo_Complete
  \/ Deliver_Complete
  \/ Fallback_Complete
  \/ Dispatcher_Deliver
  \/ Dispatcher_Settle
  \/ Timer_Fire
  \/ Tick
  \/ Jump

Spec == Init /\ [][Next]_vars

\* what Node and the services do on their own: the continuations of the
\* handlers, the REST calls and extractor steps (each returns or throws), the
\* timers
Progress ==
  \/ HandleWebhook_Parse
  \/ HandleWebhook_Route
  \/ HandleIncomingMessage_Checks
  \/ HandleIncomingCommand_Checks
  \/ VerifySecret
  \/ Message_Start
  \/ Message_LoadConfig
  \/ Message_Enhance
  \/ Message_Process
  \/ Message_Route
  \/ Command_LoadConfig
  \/ Call_Wake
  \/ Typing_Complete
  \/ FileGet_Complete
  \/ FileInfo_Complete
  \/ Deliver_Complete
  \/ Fallback_Complete
  \/ Timer_Fire
  \/ Jump

\* the agent-dispatch collaborator (Dispatcher_Deliver, Dispatcher_Settle)
\* is under no obligation: it may never call back and never settle
FairSpec == Spec /\ WF_vars(Progress)

----------------------------------------------------------------------------
(* No webhook request is followed: the state the stand-alone functions run in *)

Parked ==
  /\ body = Consumed
  /\ secret = UNDEF
  /\ cfg = GoodConfig
  /\ pc = "idle"
  /\ event = NoEvent
  /\ http = [status |-> 0, at |-> 0]
  /\ verification = "none"
  /\ trail = <<>>
  /\ now = Epoch
  /\ ticks = 0
  /\ client = NewClient
  /\ attachments = <<>>
  /\ idx = 0
  /\ disp = [st |-> "none", at |-> 0, delivers |-> 0, err |-> "none", files |-> 0,
             described |-> 0, body |-> <<>>]
  /\ timer = [st |-> "none", deadline |-> 0]
  /\ outer = "none"
  /\ sends = [reply |-> 0, replyOk |-> 0, fallback |-> 0, wording |-> "none",
              last |-> NoCall]

request == <<body, secret, cfg, pc, event, http, verification, trail, now, ticks,
             client, attachments, idx, disp, timer, outer, sends>>

----------------------------------------------------------------------------
(* The comparison of verifySecret, webhook.ts:194, character by character *)

SecretChars == {"a", "b"}

\* the strings of SecretLen characters
SecretStrings == [1..SecretLen -> SecretChars]

\* the first position where two strings of equal length differ, 0 if none
FirstMismatch(a, b) ==
  IF \A i \in 1..Len(a) : a[i] = b[i] THEN 0
  ELSE CHOOSE i \in 1..Len(a) : a[i] # b[i] /\ \A j \in 1..(i - 1) : a[j] = b[j]

\* secret !== account.webhookSecret: strings of different lengths differ at
\* once; strings of one length are compared from the left and the comparison
\* stops at the first character that differs. examined: characters read
StrictNotEquals(a, b) ==
  IF Len(a) # Len(b) THEN [differ |-> TRUE, examined |-> 0]
  ELSE IF FirstMismatch(a, b) = 0 THEN [differ |-> FALSE, examined |-> Len(a)]
  ELSE [differ |-> TRUE, examined |-> FirstMismatch(a, b)]

InitCompare ==
  /\ Parked
  /\ \E st \in SecretStrings, a \in SecretStrings, b \in SecretStrings :
       unit = [fn |-> "compare", pc |-> "start", stored |-> st, a |-> a, b |-> b,
               ra |-> [differ |-> FALSE, examined |-> 0],
               rb |-> [differ |-> FALSE, examined |-> 0]]

\* two requests, with the supplied secrets a and b, are verified against the
\* same stored secret
Compare_Run ==
  /\ unit.fn = "compare"
  /\ unit.pc = "start"
  /\ unit' = [unit EXCEPT !.pc = "done",
                          !.ra = StrictNotEquals(unit.a, unit.stored),
                          !.rb = StrictNotEquals(unit.b, unit.stored)]
  /\ UNCHANGED request

NextCompare == Compare_Run

SpecCompare == InitCompare /\ [][NextCompare]_vars

----------------------------------------------------------------------------
(* The content extractors behind downloadAndProcessAttachment, webhook.ts:
   1094-1215 and 1411-1824, followed on their own from the moment the file has
   been downloaded: transcribeVoiceContent step by step with the files it
   leaves in /tmp, the others by their outcomes *)

Categories == {"image", "document", "voice", "video"}

\* the extensions extractDocumentText tells apart ("bin": any other)
Extensions == {"txt", "pdf", "docx", "doc", "bin"}

\* the OpenAI limit of transcribeVoiceContent, webhook.ts:1751
VoiceLimit == 25 * 1024 * 1024

\* fileBuffer.length
BufferLengths == {0, 2048, VoiceLimit + 1}

\* attachment.size
Sizes == {0, 2048}

\* formatFileSize, webhook.ts:1007-1012, of the sizes above
formatFileSize(bytes) ==
  CASE bytes = 0 -> "0 B"
    [] bytes = 2048 -> "2.0 KB"
    [] bytes = VoiceLimit + 1 -> "25.0 MB"

\* attachment.name, and attachment.duration || '?' followed by "s"
NameOf(a) == IF a.category = "document" THEN "memo." \o a.ext ELSE "memo"
DurationOf(a) == "?s"

\* asrProvider of the account, of channels.bitrix24, and ASR_PROVIDER
ProviderSettings == {UNDEF, "auto", "qwen", "openai", "QWEN"}

\* the attachments and their surroundings: the ASR provider settings and
\* whether an OpenAI key is found
ExtractInputs ==
  {[att |-> [category |-> c, ext |-> e, size |-> z], length |-> n,
    account |-> a, global |-> g, env |-> v, hasKey |-> k] :
      c \in Categories, e \in Extensions, z \in Sizes, n \in BufferLengths,
      a \in ProviderSettings, g \in ProviderSettings, v \in ProviderSettings,
      k \in BOOLEAN}

\* one run per category suffices for what a category does not look at
RelevantInputs ==
  {i \in ExtractInputs :
     /\ i.att.category # "document" => i.att.ext = "bin"
     /\ i.att.category # "voice" =>
          /\ i.length = 2048 /\ i.hasKey
          /\ i.account = UNDEF /\ i.global = UNDEF /\ i.env = UNDEF
     /\ i.att.category = "voice" => i.att.size = 2048}

InitExtract ==
  /\ Parked
  /\ \E i \in RelevantInputs :
       unit = [fn |-> "extract", pc |-> "start", in |-> i, provider |-> "none",
               probe |-> "none",
               tried |-> <<>>, disk |-> {}, tempPath |-> FALSE,
               convertedPath |-> FALSE, unlinks |-> {}, result |-> <<>>,
               failed |-> FALSE, error |-> "none", ran |-> {}]

Extracting(c) == unit.fn = "extract" /\ unit.in.att.category = c

\* return: the value, and what the finally block of transcribeVoiceContent
\* starts without awaiting it, webhook.ts:1816-1822
Return(u, res, failed) ==
  [u EXCEPT !.pc = "returned", !.result = res, !.failed = failed,
            !.unlinks = IF u.tempPath THEN @ \cup {"mp3"} ELSE @]

\* analyzeImageAttachment, webhook.ts:1094-1152
Image_Analyze ==
  /\ Extracting("image")
  /\ unit.pc = "start"
  /\ LET a == unit.in.att IN
     \E o \in {"notmp", "writethrew", "described", "notool"} :
       unit' =
         CASE o = "notmp" ->
                Return(unit, <<"[Image: ", NameOf(a), " - ", formatFileSize(a.size), "]">>, TRUE)
           [] o = "writethrew" ->
                Return(unit, <<"[Image: ", NameOf(a), "]">>, TRUE)
           [] o = "described" ->
                [Return(unit, <<"description">>, FALSE) EXCEPT
                   !.disk = @ \cup {"jpg"}, !.unlinks = @ \cup {"jpg"}]
           [] o = "notool" ->
                [Return(unit, <<"[Image: ", NameOf(a), " - ", formatFileSize(a.size),
                                " saved to ", "jpg", "]">>, TRUE) EXCEPT
                   !.disk = @ \cup {"jpg"}]
  /\ UNCHANGED request

\* extractDocumentText, webhook.ts:1157-1215
Document_Extract ==
  /\ Extracting("document")
  /\ unit.pc = "start"
  /\ LET a == unit.in.att
         sized(label, more) ==
           <<label, NameOf(a), " - ", formatFileSize(a.size)>> \o more
     IN \E o \in {"done", "threw"}, pdf \in {"text", "scanned", "none"} :
          unit' =
            IF o = "threw" THEN Return(unit, sized("[Document: ", <<"]">>), TRUE)
            ELSE CASE a.ext = "txt" ->
                        Return(unit, <<"[Text Document: ", NameOf(a), "]", "preview">>, FALSE)
                   [] a.ext = "pdf" /\ pdf = "text" ->
                        Return(unit, sized("[PDF: ", <<"]", "text">>), FALSE)
                   [] a.ext = "pdf" /\ pdf = "scanned" ->
                        Return(unit, sized("[Scanned PDF: ", <<"]", "description">>), FALSE)
                   [] a.ext = "pdf" /\ pdf = "none" ->
                        Return(unit, sized("[PDF Document: ", <<"]">>), TRUE)
                   [] a.ext = "docx" ->
                        Return(unit, sized("[Office Document: ", <<" - DOCX/XLSX/PPTX format]">>), TRUE)
                   [] a.ext = "doc" ->
                        Return(unit, sized("[Legacy Office Document: ", <<"]">>), TRUE)
                   [] a.ext = "bin" ->
                        Return(unit, sized("[Document: ", <<"]">>), TRUE)
  /\ UNCHANGED request

\* processVideoAttachment, webhook.ts:1411-1420
Video_Process ==
  /\ Extracting("video")
  /\ unit.pc = "start"
  /\ LET a == unit.in.att IN
     unit' = Return(unit, <<"[Video: ", NameOf(a), " - ", formatFileSize(a.size),
                            " - ", "unknown duration", "]">>, TRUE)
  /\ UNCHANGED request

\* transcribeVoiceContent: the validation of the buffer
Voice_Validate ==
  /\ Extracting("voice")
  /\ unit.pc = "start"
  /\ LET a == unit.in.att IN
     unit' =
       IF unit.in.length = 0
       THEN Return(unit, <<"[Voice Message: ", NameOf(a), " - Empty file]">>, TRUE)
       ELSE IF unit.in.length > VoiceLimit
       THEN Return(unit, <<"[Voice Message: ", NameOf(a),
                           " - File too large for transcription]">>, TRUE)
       ELSE [unit EXCEPT !.pc = "provider"]
  /\ UNCHANGED request

\* a selection that looks at the environment first
determineASRProvider_EnvFirst(account, global, env, qwenReachable) ==
  LET configured == Or(env, Or(global, Or(account, "auto")))
      lower == IF configured = "QWEN" THEN "qwen" ELSE configured
  IN IF lower \in {"openai", "qwen"} THEN [provider |-> lower, probe |-> "none"]
     ELSE IF qwenReachable THEN [provider |-> "qwen", probe |-> "ok"]
     ELSE [provider |-> "openai", probe |-> "failed"]

\* determineASRProvider, webhook.ts:1485-1523: the provider, and whether
\* checkQwenReachable was asked and what it said
determineASRProvider(account, global, env, qwenReachable) ==
  LET configured == Or(account, Or(global, Or(env, "auto")))
      lower == IF configured = "QWEN" THEN "qwen" ELSE configured
  IN IF lower \in {"openai", "qwen"} THEN [provider |-> lower, probe |-> "none"]
     ELSE IF qwenReachable THEN [provider |-> "qwen", probe |-> "ok"]
     ELSE [provider |-> "openai", probe |-> "failed"]

\* const { provider, qwenUrl } = await determineASRProvider(...)
Voice_DetermineProvider ==
  /\ Extracting("voice")
  /\ unit.pc = "provider"
  /\ \E qwenReachable \in BOOLEAN :
       LET r == determineASRProvider(unit.in.account, unit.in.global, unit.in.env,
                                     qwenReachable)
       IN unit' = [unit EXCEPT !.pc = "write", !.provider = r.provider,
                               !.probe = r.probe]
  /\ UNCHANGED request

\* what transcribeVoiceContent returns after the providers ran, webhook.ts:
\* 1802-1814
VoiceFailed(a, error, tried) ==
  <<"[Voice Message: ", NameOf(a), " - ", DurationOf(a),
    " - Transcription failed: ", error, "Attempted: ">> \o tried \o <<"]">>

VoiceThrew(a) == <<"[Voice Message: ", NameOf(a), " - ", DurationOf(a), "]">>

VoiceTranscribed(a, tried) ==
  <<"[Voice: ", NameOf(a), " - ", DurationOf(a), "]", "Transcription: ", "text",
    "Provider: ">> \o tried \o <<"]">>

\* tempPath is set, then fs.promises.writeFile: it throws, and may have
\* created the file, or it resolves; then the primary provider, webhook.ts:
\* 1759-1775
Voice_WriteFile ==
  /\ Extracting("voice")
  /\ unit.pc = "write"
  /\ \/ \E created \in BOOLEAN :
          unit' = [Return([unit EXCEPT !.tempPath = TRUE],
                          VoiceThrew(unit.in.att), TRUE) EXCEPT
                     !.disk = IF created THEN @ \cup {"mp3"} ELSE @]
     \/ unit' = [unit EXCEPT
                   !.tempPath = TRUE,
                   !.disk = @ \cup {"mp3"},
                   !.pc = IF unit.provider = "openai" /\ unit.in.hasKey
                          THEN "openai" ELSE "qwen",
                   !.tried = IF unit.provider = "qwen" THEN <<"Qwen3-ASR">>
                             ELSE IF unit.in.hasKey THEN <<"OpenAI">>
                             ELSE <<"OpenAI (no key)">>]
  /\ UNCHANGED request

\* transcribeWithQwen up to the curl call: convertToWav, webhook.ts:1529-1557,
\* of the .mp3. ffmpeg writes the .wav and exits ("converted"), fails before
\* it creates the file ("nofile"), or is stopped (the 30 s timeout, an error
\* exit) after it created the file ("partial": convertToWav returns null)
Qwen_Convert ==
  /\ Extracting("voice")
  /\ unit.pc = "qwen"
  /\ \E o \in {"converted", "nofile", "partial"} :
       unit' = [unit EXCEPT
                  !.pc = "qwen_curl",
                  !.convertedPath = (o = "converted"),
                  !.disk = IF o = "nofile" THEN @ ELSE @ \cup {"wav"}]
  /\ UNCHANGED request

\* a Qwen run after whose failure the extractor gives up
Qwen_Curl_NoFallback ==
  /\ Extracting("voice")
  /\ unit.pc = "qwen_curl"
  /\ \E res \in {"text", "Empty transcription", "Network/connection error"} :
       LET u == [unit EXCEPT
                   !.unlinks = IF unit.convertedPath THEN @ \cup {"wav"} ELSE @,
                   !.convertedPath = FALSE, !.error = res,
                   !.ran = @ \cup {"qwen"}]
       IN unit' =
            IF res = "text" THEN Return(u, VoiceTranscribed(u.in.att, u.tried), FALSE)
            ELSE Return(u, VoiceFailed(u.in.att, res, u.tried), TRUE)
  /\ UNCHANGED request

\* the rest of transcribeWithQwen, webhook.ts:1592-1676: the curl call and
\* the finally block; then webhook.ts:1777-1813 (ran: the providers that
\* were called so far)
Qwen_Curl ==
  /\ Extracting("voice")
  /\ unit.pc = "qwen_curl"
  /\ \E res \in {"text", "Empty transcription", "Network/connection error"} :
       LET u == [unit EXCEPT
                   !.unlinks = IF unit.convertedPath THEN @ \cup {"wav"} ELSE @,
                   !.convertedPath = FALSE, !.error = res,
                   !.ran = @ \cup {"qwen"}]
       IN unit' =
            IF res = "text" THEN Return(u, VoiceTranscribed(u.in.att, u.tried), FALSE)
            ELSE IF u.provider = "qwen" /\ u.in.hasKey
            THEN [u EXCEPT !.pc = "openai", !.tried = Append(@, "OpenAI (fallback)")]
            ELSE LET t == IF u.provider = "qwen"
                          THEN Append(u.tried, "OpenAI (no key)") ELSE u.tried
                 IN Return([u EXCEPT !.tried = t], VoiceFailed(u.in.att, res, t), TRUE)
  /\ UNCHANGED request

\* transcribeWithOpenAI, webhook.ts:1682-1727; then webhook.ts:1793-1813
OpenAI_Curl ==
  /\ Extracting("voice")
  /\ unit.pc = "openai"
  /\ \E res \in {"text", "Invalid response format", "Network/connection error"} :
       LET u == [unit EXCEPT !.error = res, !.ran = @ \cup {"openai"}] IN
       unit' =
         IF res = "text" THEN Return(u, VoiceTranscribed(u.in.att, u.tried), FALSE)
         ELSE IF u.provider = "openai"
         THEN [u EXCEPT !.pc = "qwen", !.tried = Append(@, "Qwen3-ASR (fallback)")]
         ELSE Return(u, VoiceFailed(u.in.att, res, u.tried), TRUE)
  /\ UNCHANGED request

\* an un-awaited fs.promises.unlink settles: the file is gone, or the unlink
\* failed, which its .catch only logs
Unlink_Complete ==
  /\ unit.fn = "extract"
  /\ \E path \in unit.unlinks, ok \in BOOLEAN :
       unit' = [unit EXCEPT !.unlinks = @ \ {path},
                            !.disk = IF ok THEN @ \ {path} ELSE @]
  /\ UNCHANGED request

NextExtract ==
  \/ Image_Analyze
  \/ Document_Extract
  \/ Video_Process
  \/ Voice_Validate
  \/ Voice_DetermineProvider
  \/ Voice_WriteFile
  \/ Qwen_Convert
  \/ Qwen_Curl
  \/ OpenAI_Curl
  \/ Unlink_Complete

SpecExtract == InitExtract /\ [][NextExtract]_vars

----------------------------------------------------------------------------
(* The deliver callbacks, webhook.ts:506-530 and 697-726, followed on their
   own: one call of a callback for one payload of the agent *)

\* agent outputs: blank ones, plain ones, and Markdown with code fences
Outputs ==
  {<<>>, <<" ">>, <<"\n", "\t">>, Hi, HiBack,
   <<Fence, Fence>>, <<Fence, "\n", Fence>>, <<Fence, "h", "i", Fence>>,
   <<Fence, "h", "i", "\n", "o", "k", "\n", Fence>>,
   <<Fence, "\n", "o", "\n", "k", Fence, "\n", "\n", "\n", "h", "i">>,
   <<"h", "i", Fence>>}

\* payload.text, payload.body, payload.content
Payloads ==
  {[text |-> t, body |-> <<>>, content |-> <<>>] : t \in Outputs}
  \cup {[text |-> <<>>, body |-> b, content |-> c] :
          b \in {<<>>, <<" ">>, Hi}, c \in {<<>>, Hello}}

\* the events a deliver callback is created for: a message or a command from
\* user 42, with or without PARAMS.DIALOG_ID, PARAMS.MESSAGE_ID and
\* COMMAND.COMMAND_ID
DeliverEvents ==
  {[isMsg |-> TRUE, data |-> [Msg("42", UNDEF, "7", Hi, 0, 0, 0) EXCEPT !.dialogId = g]] :
     g \in {UNDEF, "chat5"}}
  \cup
  {[isMsg |-> FALSE, data |-> [Cmd("42", "7", "help", i, m) EXCEPT !.dialogId = g]] :
     g \in {UNDEF, "chat5"}, i \in {UNDEF, "9", "0", "nine"}, m \in {UNDEF, "55"}}

InitDeliver ==
  /\ Parked
  /\ \E e \in DeliverEvents, p \in Payloads :
       unit = [fn |-> "deliver", pc |-> "start", isMsg |-> e.isMsg, data |-> e.data,
               payload |-> p, r |-> [outcome |-> "none", call |-> NoCall]]

\* the callback runs up to its REST call
Deliver_Run ==
  /\ unit.fn = "deliver"
  /\ unit.pc = "start"
  /\ unit' = [unit EXCEPT !.pc = "done",
                          !.r = deliver(unit.isMsg, unit.data, unit.payload)]
  /\ UNCHANGED request

\* the catch block after the dispatch, webhook.ts:538-555 and 734-751, up
\* to its REST call: the fallback message, whether or not a reply went out
Deliver_Fallback ==
  /\ unit.fn = "deliver"
  /\ unit.pc \in {"start", "done"}
  /\ unit' = [unit EXCEPT
                !.pc = "failed",
                !.r = sendMessage(ReplyDialogId(unit.isMsg, unit.data),
                                  <<"S", "o", "r", "r", "y", ",", " ", "I">>)]
  /\ UNCHANGED request

NextDeliver ==
  \/ Deliver_Run
  \/ Deliver_Fallback

SpecDeliver == InitDeliver /\ [][NextDeliver]_vars

----------------------------------------------------------------------------
(* categorizeAttachment, webhook.ts:849-895, followed on its own; MIME types
   and file names are sequences of characters *)

\* String.prototype.toLowerCase on the letters that occur in upper case
toLowerCase(s) ==
  [i \in DOMAIN s |->
     CASE s[i] = "A" -> "a" [] s[i] = "D" -> "d" [] s[i] = "E" -> "e"
       [] s[i] = "F" -> "f" [] s[i] = "G" -> "g" [] s[i] = "I" -> "i"
       [] s[i] = "M" -> "m" [] s[i] = "N" -> "n" [] s[i] = "P" -> "p"
       [] OTHER -> s[i]]

\* startsWith, endsWith, includes
startsWith(s, p) == Len(s) >= Len(p) /\ SubSeq(s, 1, Len(p)) = p
endsWith(s, p) == Len(s) >= Len(p) /\ SubSeq(s, Len(s) - Len(p) + 1, Len(s)) = p
includes(s, p) == \E i \in 1..(Len(s) - Len(p) + 1) : SubSeq(s, i, i + Len(p) - 1) = p

\* /\.(a|b|...)$/i.test(name) on the lower-cased name
hasExtension(name, exts) == \E e \in exts : endsWith(name, <<".">> \o e)

\* the rule list with the generic audio rule ahead of the file name keywords
categorizeAttachment_GenericAudioFirst(mimeType, fileName) ==
  LET type == toLowerCase(mimeType)
      name == toLowerCase(fileName)
      ImageExtensions ==
        {<<"j", "p", "g">>, <<"j", "p", "e", "g">>, <<"p", "n", "g">>, <<"g", "i", "f">>,
         <<"w", "e", "b", "p">>, <<"b", "m", "p">>, <<"s", "v", "g">>}
      VideoExtensions ==
        {<<"m", "p", "4">>, <<"a", "v", "i">>, <<"m", "o", "v">>, <<"m", "k", "v">>,
         <<"w", "e", "b", "m">>}
      VoiceExtensions ==
        {<<"o", "p", "u", "s">>, <<"o", "g", "a">>, <<"s", "p", "x">>}
      DocumentExtensions ==
        {<<"p", "d", "f">>, <<"d", "o", "c">>, <<"d", "o", "c", "x">>, <<"x", "l", "s">>,
         <<"x", "l", "s", "x">>, <<"p", "p", "t">>, <<"p", "p", "t", "x">>, <<"t", "x", "t">>, <<"r", "t", "f">>}
      isVoicePattern ==
        \/ includes(name, <<"v", "o", "i", "c", "e">>)
        \/ includes(name, <<"a", "u", "d", "i", "o">>)
        \/ (startsWith(name, <<"m", "o", "b", "i", "l", "e", "_", "a", "u", "d", "i", "o", "_">>)
            /\ endsWith(name, <<".", "m", "p", "3">>)
            /\ Len(name) >= Len(<<"m", "o", "b", "i", "l", "e", "_", "a", "u", "d", "i", "o", "_", ".", "m", "p", "3">>))
        \/ includes(name, <<"r", "e", "c", "o", "r", "d", "i", "n", "g">>)
  IN IF mimeType = <<>> /\ fileName = <<>> THEN "file"
     ELSE IF startsWith(type, <<"i", "m", "a", "g", "e", "/">>) \/ hasExtension(name, ImageExtensions)
     THEN "image"
     ELSE IF startsWith(type, <<"v", "i", "d", "e", "o", "/">>) \/ hasExtension(name, VideoExtensions)
     THEN "video"
     ELSE IF startsWith(type, <<"a", "u", "d", "i", "o", "/">>) \/ type = <<"a", "p", "p", "l", "i", "c", "a", "t", "i", "o", "n", "/", "o", "g", "g">>
     THEN IF includes(type, <<"o", "g", "g">>) \/ endsWith(name, <<".", "o", "g", "a">>)
          THEN "voice" ELSE "file"
     ELSE IF isVoicePattern THEN "voice"
     ELSE IF hasExtension(name, VoiceExtensions) THEN "voice"
     ELSE IF \/ includes(type, <<"p", "d", "f">>)
             \/ includes(type, <<"w", "o", "r", "d">>)
             \/ includes(type, <<"e", "x", "c", "e", "l">>)
             \/ includes(type, <<"p", "o", "w", "e", "r", "p", "o", "i", "n", "t">>)
             \/ hasExtension(name, DocumentExtensions)
     THEN "document"
     ELSE "file"

categorizeAttachment(mimeType, fileName) ==
  LET type == toLowerCase(mimeType)
      name == toLowerCase(fileName)
      ImageExtensions ==
        {<<"j", "p", "g">>, <<"j", "p", "e", "g">>, <<"p", "n", "g">>, <<"g", "i", "f">>,
         <<"w", "e", "b", "p">>, <<"b", "m", "p">>, <<"s", "v", "g">>}
      VideoExtensions ==
        {<<"m", "p", "4">>, <<"a", "v", "i">>, <<"m", "o", "v">>, <<"m", "k", "v">>,
         <<"w", "e", "b", "m">>}
      VoiceExtensions ==
        {<<"o", "p", "u", "s">>, <<"o", "g", "a">>, <<"s", "p", "x">>}
      DocumentExtensions ==
        {<<"p", "d", "f">>, <<"d", "o", "c">>, <<"d", "o", "c", "x">>, <<"x", "l", "s">>,
         <<"x", "l", "s", "x">>, <<"p", "p", "t">>, <<"p", "p", "t", "x">>, <<"t", "x", "t">>, <<"r", "t", "f">>}
      isVoicePattern ==
        \/ includes(name, <<"v", "o", "i", "c", "e">>)
        \/ includes(name, <<"a", "u", "d", "i", "o">>)
        \/ (startsWith(name, <<"m", "o", "b", "i", "l", "e", "_", "a", "u", "d", "i", "o", "_">>)
            /\ endsWith(name, <<".", "m", "p", "3">>)
            /\ Len(name) >= Len(<<"m", "o", "b", "i", "l", "e", "_", "a", "u", "d", "i", "o", "_", ".", "m", "p", "3">>))
        \/ includes(name, <<"r", "e", "c", "o", "r", "d", "i", "n", "g">>)
  IN IF mimeType = <<>> /\ fileName = <<>> THEN "file"
     ELSE IF startsWith(type, <<"i", "m", "a", "g", "e", "/">>) \/ hasExtension(name, ImageExtensions)
     THEN "image"
     ELSE IF startsWith(type, <<"v", "i", "d", "e", "o", "/">>) \/ hasExtension(name, VideoExtensions)
     THEN "video"
     ELSE IF isVoicePattern THEN "voice"
     ELSE IF startsWith(type, <<"a", "u", "d", "i", "o", "/">>) \/ type = <<"a", "p", "p", "l", "i", "c", "a", "t", "i", "o", "n", "/", "o", "g", "g">>
     THEN IF includes(type, <<"o", "g", "g">>) \/ endsWith(name, <<".", "o", "g", "a">>)
          THEN "voice" ELSE "file"
     ELSE IF hasExtension(name, VoiceExtensions) THEN "voice"
     ELSE IF \/ includes(type, <<"p", "d", "f">>)
             \/ includes(type, <<"w", "o", "r", "d">>)
             \/ includes(type, <<"e", "x", "c", "e", "l">>)
             \/ includes(type, <<"p", "o", "w", "e", "r", "p", "o", "i", "n", "t">>)
             \/ hasExtension(name, DocumentExtensions)
     THEN "document"
     ELSE "file"

\* the MIME types and the file names the function is applied to
InitCategorize ==
  /\ Parked
  /\ \E t \in {<<>>,
             <<"i", "m", "a", "g", "e", "/", "p", "n", "g">>,
             <<"v", "i", "d", "e", "o", "/", "m", "p", "4">>,
             <<"a", "u", "d", "i", "o", "/", "o", "g", "g">>,
             <<"a", "u", "d", "i", "o", "/", "m", "p", "e", "g">>,
             <<"a", "p", "p", "l", "i", "c", "a", "t", "i", "o", "n", "/", "o", "g", "g">>,
             <<"a", "p", "p", "l", "i", "c", "a", "t", "i", "o", "n", "/", "p", "d", "f">>,
             <<"a", "p", "p", "l", "i", "c", "a", "t", "i", "o", "n", "/", "m", "s", "w", "o", "r", "d">>,
             <<"t", "e", "x", "t", "/", "p", "l", "a", "i", "n">>,
             <<"I", "M", "A", "G", "E", "/", "P", "N", "G">>},
        n \in {<<>>,
             <<"p", "h", "o", "t", "o", ".", "j", "p", "g">>,
             <<"c", "l", "i", "p", ".", "m", "p", "4">>,
             <<"v", "o", "i", "c", "e", "_", "m", "s", "g", ".", "o", "g", "a">>,
             <<"i", "n", "v", "o", "i", "c", "e", ".", "p", "d", "f">>,
             <<"r", "e", "p", "o", "r", "t", ".", "p", "d", "f">>,
             <<"m", "o", "b", "i", "l", "e", "_", "a", "u", "d", "i", "o", "_", "1", ".", "m", "p", "3">>,
             <<"s", "o", "n", "g", ".", "m", "p", "3">>,
             <<"r", "e", "c", "o", "r", "d", "i", "n", "g", ".", "d", "o", "c">>,
             <<"n", "o", "t", "e", ".", "o", "p", "u", "s">>,
             <<"d", "a", "t", "a", ".", "b", "i", "n">>,
             <<"A", ".", "P", "D", "F">>} :
       unit = [fn |-> "categorize", pc |-> "start", mimeType |-> t, fileName |-> n,
               category |-> "none"]

Categorize_Run ==
  /\ unit.fn = "categorize"
  /\ unit.pc = "start"
  /\ unit' = [unit EXCEPT !.pc = "done",
                          !.category = categorizeAttachment(unit.mimeType, unit.fileName)]
  /\ UNCHANGED request

SpecCategorize == InitCategorize /\ [][Categorize_Run]_vars

----------------------------------------------------------------------------
(* parseBody, webhook.ts:61-124, on the two encodings of one event. An event
   is a set of leaves, each a path of keys and a value; its JSON text nests
   the keys as objects, its form text has one key per leaf, the path written
   with brackets: data[BOT][7][BOT_ID]=7 *)

Leaf(p, v) == [path |-> p, value |-> v]

\* the leaves an event may carry besides event, ts and auth[application_token]
OptionalLeaves ==
  {Leaf(<<"data", "PARAMS", "MESSAGE">>, "hi"),
   Leaf(<<"data", "PARAMS", "FROM_USER_ID">>, "42"),
   Leaf(<<"data", "PARAMS", "PARAMS", "FILE_ID", "0">>, "700001"),
   Leaf(<<"data", "USER", "ID">>, "42"),
   Leaf(<<"data", "BOT", "7", "BOT_ID">>, "7"),
   Leaf(<<"data", "COMMAND", "0", "COMMAND">>, "help"),
   Leaf(<<"data", "AUTHOR_ID">>, "42")}

LogicalEvents ==
  {{Leaf(<<"event">>, e), Leaf(<<"ts">>, "1700000000"),
    Leaf(<<"auth", "application_token">>, "tok")} \cup more :
      e \in {"ONIMMESSAGEADD", CommandEvent}, more \in SUBSET OptionalLeaves}

\* the value a property chain reads from a parsed body: a leaf's value, an
\* object if the chain stops above a leaf, undefined otherwise
Get(tree, p) ==
  IF \E l \in tree : l.path = p
  THEN (CHOOSE l \in tree : l.path = p).value
  ELSE IF \E l \in tree : Len(l.path) > Len(p) /\ SubSeq(l.path, 1, Len(p)) = p
  THEN "[object Object]"
  ELSE UNDEF

\* JSON.parse(body), webhook.ts:73-76: the nesting of the text, as it is
parseJson(leaves) == leaves

\* the form branch, webhook.ts:78-117: where each key's value is stored. The
\* PARAMS and USER patterns keep the first key below the section, the BOT and
\* COMMAND patterns skip a numeric key and keep the next one, every key that
\* starts otherwise becomes a top-level property named by the whole key
FormTarget(p) ==
  LET numeric(k) == k \in {"0", "7"}
      bracketed == [i \in 1..Len(p) |-> IF i = 1 THEN p[i] ELSE "[" \o p[i] \o "]"]
      join[i \in 0..Len(p)] == IF i = 0 THEN "" ELSE join[i - 1] \o bracketed[i]
  IN CASE Len(p) >= 2 /\ p[1] = "data" /\ p[2] \in {"PARAMS", "USER"} ->
            IF Len(p) >= 3 THEN <<"data", p[2], p[3]>> ELSE <<>>
       [] Len(p) >= 2 /\ p[1] = "data" /\ p[2] \in {"BOT", "COMMAND"} ->
            IF Len(p) >= 4 /\ numeric(p[3]) THEN <<"data", p[2], p[4]>> ELSE <<>>
       [] Len(p) >= 2 /\ p[1] = "auth" -> <<"auth", p[2]>>
       [] OTHER -> <<join[Len(p)]>>

\* the result of the form branch: event is "" unless the body has the key
parseForm(leaves) ==
  LET stored == {Leaf(FormTarget(l.path), l.value) : l \in leaves}
  IN {l \in stored : l.path # <<>>}
       \cup (IF \E l \in stored : l.path = <<"event">> THEN {}
             ELSE {Leaf(<<"event">>, "")})

\* keys no pattern of the form branch is written for
UnknownLeaves ==
  {Leaf(<<"data", "PARAMS", "MESSAGE", "extra">>, "x"),
   Leaf(<<"data", "USER", "ID", "extra">>, "x"),
   Leaf(<<"data", "BOT", "x", "BOT_ID">>, "x"),
   Leaf(<<"data", "FOO", "BAR">>, "x"),
   Leaf(<<"event", "x">>, "x"),
   Leaf(<<"auth", "application_token", "x">>, "x")}

\* the form branch on a body that carries the key extra as well, behind the
\* other keys (last) or ahead of them: the loop of webhook.ts:82-114 stores
\* the keys in the order of the body, a later value replacing an earlier one
parseFormWith(leaves, extra, last) ==
  LET target == FormTarget(extra.path)
      rest == parseForm(leaves)
  IN IF target = <<>> THEN rest
     ELSE IF last THEN {l \in rest : l.path # target} \cup {Leaf(target, extra.value)}
     ELSE IF \E l \in leaves : FormTarget(l.path) = target THEN rest
     ELSE {l \in rest : l.path # target} \cup {Leaf(target, extra.value)}

\* what handleWebhookRequest and the two handlers read from the parsed body,
\* webhook.ts:147-153, 243-278 and 580-597
Normalized(tree) ==
  [event |-> Get(tree, <<"event">>),
   PARAMS |-> [k \in {"MESSAGE", "FROM_USER_ID", "PARAMS"} |->
                 Get(tree, <<"data", "PARAMS", k>>)],
   USER |-> [k \in {"ID"} |-> Get(tree, <<"data", "USER", k>>)],
   BOT |-> [k \in {"BOT_ID"} |-> Get(tree, <<"data", "BOT", k>>)],
   COMMAND |-> [k \in {"COMMAND", "COMMAND_ID"} |->
                  Get(tree, <<"data", "COMMAND", k>>)]]

InitParse ==
  /\ Parked
  /\ \E e \in LogicalEvents :
       unit = [fn |-> "parse", logical |-> e, json |-> {}, form |-> {},
               parsed |-> {}, unknown |-> <<>>, withUnknown |-> {}]

\* the event arrives as JSON text
Parse_Json ==
  /\ unit.fn = "parse"
  /\ "json" \notin unit.parsed
  /\ unit' = [unit EXCEPT !.json = parseJson(unit.logical),
                          !.parsed = @ \cup {"json"}]
  /\ UNCHANGED request

\* the event arrives form-encoded
Parse_Form ==
  /\ unit.fn = "parse"
  /\ "form" \notin unit.parsed
  /\ unit' = [unit EXCEPT !.form = parseForm(unit.logical),
                          !.parsed = @ \cup {"form"}]
  /\ UNCHANGED request

\* the event arrives form-encoded, with one more key in its body
Parse_FormWithUnknown ==
  /\ unit.fn = "parse"
  /\ unit.unknown = <<>>
  /\ \E extra \in UnknownLeaves, last \in BOOLEAN :
       unit' = [unit EXCEPT !.unknown = <<extra.path, last>>,
                            !.withUnknown = parseFormWith(unit.logical, extra, last)]
  /\ UNCHANGED request

NextParse ==
  \/ Parse_Json
  \/ Parse_Form
  \/ Parse_FormWithUnknown

SpecParse == InitParse /\ [][NextParse]_vars

----------------------------------------------------------------------------
(* The bulk operations on bot commands, part_005:905-1077 and 1137-1144,
   followed call by call. crm is the command list the CRM holds, calls the
   REST calls the client has issued *)

\* the call of updateCommand(commandId, {hidden: false}), part_005:905-946
updateCommand(commandId) ==
  [method |-> "imbot.command.update", COMMAND_ID |-> commandId, HIDDEN |-> "N"]

\* the call of listCommands, part_005:1137-1144
listCommands == [method |-> "imbot.command.get", COMMAND_ID |-> 0, HIDDEN |-> ""]

\* what imbot.command.update does to the CRM's list when it succeeds
Updated(crm, commandId) ==
  [k \in DOMAIN crm |->
     IF crm[k].ID = commandId THEN [crm[k] EXCEPT !.HIDDEN = "N"] ELSE crm[k]]

\* how a call of updateCommand ends, part_005:943-945: callApi rejects
\* ("throws": HTTP error, error field, network), or it resolves and
\* updateCommand returns result === true: "true" if the CRM answered true
\* and applied the update, "false" if its result is anything else
UpdateOutcomes == {"true", "false", "throws"}

InitCommands ==
  /\ Parked
  /\ \E crm \in {<<>>} \cup {<<[ID |-> 1, HIDDEN |-> h]>> : h \in {"Y", "N"}}
                \cup {<<[ID |-> 1, HIDDEN |-> h], [ID |-> 2, HIDDEN |-> g]>> :
                        h \in {"Y", "N"}, g \in {"Y", "N"}},
        op \in {[fn |-> "showAllCommands", commandIds |-> <<>>]}
               \cup {[fn |-> "bulkUpdateCommands", commandIds |-> ids] :
                       ids \in {<<>>, <<1>>, <<1, 2>>, <<3>>}} :
       unit = [fn |-> "commands", op |-> op.fn, commandIds |-> op.commandIds,
               pc |-> "start", crm |-> crm, commands |-> <<>>, i |-> 1,
               calls |-> <<>>, updated |-> 0, failed |-> 0,
               alreadyVisible |-> 0, results |-> <<>>]

\* showAllCommands up to its loop, part_005:974-990: listCommands resolves
\* with the CRM's list or rejects, which showAllCommands rethrows
ShowAll_List ==
  /\ unit.fn = "commands"
  /\ unit.op = "showAllCommands"
  /\ unit.pc = "start"
  /\ \E ok \in BOOLEAN :
       unit' = [unit EXCEPT
                  !.calls = Append(@, listCommands),
                  !.commands = IF ok THEN unit.crm ELSE @,
                  !.pc = IF ~ok THEN "threw"
                         ELSE IF unit.crm = <<>> THEN "done" ELSE "loop"]
  /\ UNCHANGED request

\* one round of the loop of showAllCommands, part_005:992-1018
ShowAll_Step ==
  /\ unit.fn = "commands"
  /\ unit.op = "showAllCommands"
  /\ unit.pc = "loop"
  /\ LET cmd == unit.commands[unit.i]
         next == [unit EXCEPT !.i = @ + 1,
                              !.pc = IF unit.i = Len(unit.commands)
                                     THEN "done" ELSE "loop"]
     IN IF cmd.HIDDEN = "Y"
        THEN \E res \in UpdateOutcomes :
               unit' = [next EXCEPT
                          !.calls = Append(@, updateCommand(cmd.ID)),
                          !.crm = IF res = "true" THEN Updated(@, cmd.ID) ELSE @,
                          !.updated = IF res = "throws" THEN @ ELSE @ + 1,
                          !.results = Append(@, [id |-> cmd.ID, hidden |-> "Y",
                                                 updated |-> res # "throws"])]
        ELSE unit' = [next EXCEPT
                        !.alreadyVisible = @ + 1,
                        !.results = Append(@, [id |-> cmd.ID, hidden |-> cmd.HIDDEN,
                                               updated |-> FALSE])]
  /\ UNCHANGED request

\* one round of the loop of bulkUpdateCommands, part_005:1058-1070; without
\* a round the function returns at once
Bulk_Step ==
  /\ unit.fn = "commands"
  /\ unit.op = "bulkUpdateCommands"
  /\ unit.pc \in {"start", "loop"}
  /\ IF unit.i > Len(unit.commandIds)
     THEN unit' = [unit EXCEPT !.pc = "done"]
     ELSE LET commandId == unit.commandIds[unit.i] IN
          \E res \in UpdateOutcomes :
            unit' = [unit EXCEPT
                       !.pc = "loop",
                       !.i = @ + 1,
                       !.calls = Append(@, updateCommand(commandId)),
                       !.crm = IF res = "true" THEN Updated(@, commandId) ELSE @,
                       !.updated = IF res = "throws" THEN @ ELSE @ + 1,
                       !.failed = IF res = "throws" THEN @ + 1 ELSE @]
  /\ UNCHANGED request

NextCommands ==
  \/ ShowAll_List
  \/ ShowAll_Step
  \/ Bulk_Step

SpecCommands == InitCommands /\ [][NextCommands]_vars

----------------------------------------------------------------------------
(* bbToMarkdown and markdownToBb, part_005:1149-1234, applied in turn to a
   text in the CRM's markup: bold, italic, link and plain URL, alone, nested
   and inside a sentence *)

\* how many round trips are followed
MaxTrips == 2

InitMarkup ==
  /\ Parked
  /\ LET tag(name, inner) ==
           <<"[">> \o name \o <<"]">> \o inner \o <<"[", "/">> \o name \o <<"]">>
         url == <<Scheme, "x">>
         constructs ==
           {<<"x">>,
            tag(<<"b">>, <<"x">>),
            tag(<<"i">>, <<"x">>),
            <<"[", "u", "r", "l", "=">> \o url \o <<"]", "y", "[", "/", "u", "r", "l", "]">>,
            url,
            tag(<<"b">>, tag(<<"i">>, <<"x">>)),
            tag(<<"i">>, tag(<<"b">>, <<"x">>)),
            tag(<<"b">>, <<"x">>) \o <<" ">> \o tag(<<"i">>, <<"y">>),
            tag(<<"B">>, <<"x">>),
            tag(<<"U", "R", "L">>, url)}
     IN \E pre \in {<<>>, <<"a", " ">>}, c \in constructs,
           post \in {<<>>, <<" ", "b">>, <<".">>} :
          unit = [fn |-> "markup", bb |-> pre \o c \o post, text |-> pre \o c \o post,
                  form |-> "bb", trips |-> 0, first |-> <<>>]

\* an incoming text is converted for the agent
Markup_ToMarkdown ==
  /\ unit.fn = "markup"
  /\ unit.form = "bb"
  /\ unit.trips < MaxTrips
  /\ unit' = [unit EXCEPT !.text = bbToMarkdown(@), !.form = "md"]
  /\ UNCHANGED request

\* and sent back through markdownToBb
Markup_ToBb ==
  /\ unit.fn = "markup"
  /\ unit.form = "md"
  /\ unit' = [unit EXCEPT !.text = markdownToBb(@), !.form = "bb",
                          !.trips = @ + 1,
                          !.first = IF unit.trips = 0 THEN markdownToBb(unit.text) ELSE @]
  /\ UNCHANGED request

NextMarkup ==
  \/ Markup_ToMarkdown
  \/ Markup_ToBb

SpecMarkup == InitMarkup /\ [][NextMarkup]_vars

----------------------------------------------------------------------------
(* Two webhook requests of one account handled at the same time, webhook.ts:
   288-302 and 666-679, part_005:448-518: each handler constructs its own
   Bitrix24Client, sends the typing indicator and later a reply *)

Handlers == {1, 2}

\* number of clock steps followed while the two requests are handled
MaxClock == 3

InitRequests ==
  /\ Parked
  /\ unit = [fn |-> "requests", at |-> [r \in Handlers |-> "arriving"],
             clients |-> [r \in Handlers |-> NewClient], now |-> Epoch, steps |-> 0]

\* new Bitrix24Client({...}) and the un-awaited sendTyping, webhook.ts:290-302
\* and 668-679
Request_Start(r) ==
  /\ unit.fn = "requests"
  /\ unit.at[r] = "arriving"
  /\ unit' = [unit EXCEPT
                !.at[r] = "typing",
                !.clients[r] = callApi(NewClient, "typing", "imbot.chat.sendTyping", unit.now)]
  /\ UNCHANGED request

\* the deliver callback sends the reply through the handler's client
Request_Reply(r) ==
  /\ unit.fn = "requests"
  /\ unit.at[r] = "typing"
  /\ unit' = [unit EXCEPT
                !.at[r] = "replied",
                !.clients[r] = callApi(@, "deliver", "imbot.message.add", unit.now)]
  /\ UNCHANGED request

\* the sleep of waitForRateLimit ends: lastRequestTime = Date.now(), fetch
Request_Wake(r) ==
  /\ unit.fn = "requests"
  /\ \E slot \in Slots :
       /\ unit.clients[r].calls[slot].st = "sleeping"
       /\ unit.now >= unit.clients[r].calls[slot].wake
       /\ unit' = [unit EXCEPT
                     !.clients[r] = StartCall(@, slot, @.calls[slot].method, unit.now)]
  /\ UNCHANGED request

\* time passes; a sleep that is over ends before time goes on
Requests_Tick ==
  /\ unit.fn = "requests"
  /\ unit.steps < MaxClock
  /\ \A r \in Handlers, slot \in Slots :
       unit.clients[r].calls[slot].st = "sleeping"
         => unit.now + Step <= unit.clients[r].calls[slot].wake
  /\ unit' = [unit EXCEPT !.now = @ + Step, !.steps = @ + 1]
  /\ UNCHANGED request

NextRequests ==
  \/ \E r \in Handlers : Request_Start(r)
  \/ \E r \in Handlers : Request_Reply(r)
  \/ \E r \in Handlers : Request_Wake(r)
  \/ Requests_Tick

SpecRequests == InitRequests /\ [][NextRequests]_vars

----------------------------------------------------------------------------
(* The temporary file of transcribeVoiceContent, webhook.ts:1759-1822, in two
   request flows that run at the same time: the path is made of the attachment
   id and Date.now(); analyzeImageAttachment (1110) and analyzeImageBuffer
   (1303) build theirs the same way *)

InitTemp ==
  /\ Parked
  /\ \E ids \in [Handlers -> {700001, 700002}] :
       unit = [fn |-> "temp", now |-> Epoch, steps |-> 0, disk |-> {},
               flows |-> [r \in Handlers |->
                            [id |-> ids[r], at |-> "start", tempPath |-> <<>>,
                             found |-> TRUE]]]

\* tempPath = "/tmp/bitrix24_voice_<id>_<Date.now()>.mp3"; writeFile
Temp_Write(r) ==
  /\ unit.fn = "temp"
  /\ unit.flows[r].at = "start"
  /\ LET path == <<"/tmp/bitrix24_voice_", unit.flows[r].id, unit.now, ".mp3">> IN
     unit' = [unit EXCEPT !.flows[r].at = "written", !.flows[r].tempPath = path,
                          !.disk = @ \cup {path}]
  /\ UNCHANGED request

\* the provider reads the file (curl -F file=@tempPath), webhook.ts:1592-1610
\* and 1690-1700
Temp_Read(r) ==
  /\ unit.fn = "temp"
  /\ unit.flows[r].at = "written"
  /\ unit' = [unit EXCEPT !.flows[r].at = "read",
                          !.flows[r].found = unit.flows[r].tempPath \in unit.disk]
  /\ UNCHANGED request

\* finally: fs.promises.unlink(tempPath), webhook.ts:1816-1822
Temp_Unlink(r) ==
  /\ unit.fn = "temp"
  /\ unit.flows[r].at \in {"written", "read"}
  /\ unit' = [unit EXCEPT !.flows[r].at = "returned",
                          !.disk = @ \ {unit.flows[r].tempPath}]
  /\ UNCHANGED request

\* a millisecond passes
Temp_Tick ==
  /\ unit.fn = "temp"
  /\ unit.steps < MaxClock
  /\ unit' = [unit EXCEPT !.now = @ + 1, !.steps = @ + 1]
  /\ UNCHANGED request

NextTemp ==
  \/ \E r \in Handlers : Temp_Write(r)
  \/ \E r \in Handlers : Temp_Read(r)
  \/ \E r \in Handlers : Temp_Unlink(r)
  \/ Temp_Tick

SpecTemp == InitTemp /\ [][NextTemp]_vars

----------------------------------------------------------------------------
(* The attachment list of handleIncomingMessage, webhook.ts:305-349: the
   file disk.file.get found for the PARAMS reference, then the entries
   parseAttachments reads from the ATTACH field and the FILES object *)

\* parseAttachments, webhook.ts:759-823: one entry for each id of ATTACH,
\* then one for each key of the FILES object, in this order
parseAttachmentFields(attach, files) ==
  [i \in 1..Len(attach) |-> [id |-> attach[i], url |-> FALSE, content |-> FALSE]]
    \o [i \in 1..Len(files) |-> [id |-> files[i], url |-> TRUE, content |-> FALSE]]

InitMerge ==
  /\ Parked
  /\ \E ref \in {0, 700001, 700002},
        attach \in {<<>>, <<700001>>, <<700002>>, <<700001, 700002>>, <<700003>>},
        files \in {<<>>, <<700001>>, <<700002>>, <<700001, 700002>>} :
       unit = [fn |-> "merge", pc |-> "start", fileRef |-> ref, ATTACH |-> attach,
               FILES |-> files, attachments |-> <<>>]

\* webhook.ts:312-349, with disk.file.get answering for the referenced file
Merge_Run ==
  /\ unit.fn = "merge"
  /\ unit.pc = "start"
  /\ LET found == IF unit.fileRef = 0 THEN <<>>
                  ELSE <<[id |-> unit.fileRef, url |-> TRUE, content |-> FALSE]>>
     IN unit' = [unit EXCEPT
                   !.pc = "merged",
                   !.attachments =
                     MergeAttachments(found, parseAttachmentFields(unit.ATTACH, unit.FILES))]
  /\ UNCHANGED request

SpecMerge == InitMerge /\ [][Merge_Run]_vars

----------------------------------------------------------------------------
(* Properties *)

Last(q) == q[Len(q)]

\* nothing was asked of the CRM, of the extractors or of the agent
NoSideEffects ==
  /\ client = NewClient
  /\ attachments = <<>>
  /\ disp.st = "none"
  /\ timer.st = "none"
  /\ sends.reply = 0
  /\ sends.fallback = 0

\* the secret of the request is missing or is not the stored one
WrongSecret == Falsy(secret) \/ secret # resolveBitrix24Account(cfg).webhookSecret

\* C1: no typing call, file-info fetch, download, extraction, dispatch or
\* send happens before verifySecret has succeeded for the event, and an
\* event with a wrong or missing secret causes no REST call at all.
C1_VerifiedBeforeSideEffects ==
  /\ verification # "ok" => NoSideEffects
  /\ WrongSecret => client.log = <<>> /\ \A s \in Slots : client.calls[s] = Idle

\* a message event with a wrong secret was handled to the end: no call, 200
C1_Witness ==
  /\ pc = "done"
  /\ event.event \in MessageEvents
  /\ verification = "failed"
  /\ WrongSecret /\ Truthy(secret)
  /\ http.status = 200

\* C2: when the dispatcher has not settled by the deadline (5 minutes for a
\* message, 3 for a command), exactly one fallback message is sent: none
\* before the deadline, one when the timer fires, never a second one, and its
\* REST call starts within the rate-limit interval after the deadline.
C2_OneFallbackOnTimeout ==
  /\ (disp.st = "running" /\ timer.st = "armed") => sends.fallback = 0
  /\ timer.st = "fired" =>
       /\ sends.fallback = 1
       /\ timer.deadline = disp.at + (IF IsMessage THEN 5 * 60 * 1000 ELSE 3 * 60 * 1000)
       /\ now >= timer.deadline
       /\ \A i \in DOMAIN client.log :
            client.log[i].slot = "fallback" => client.log[i].at <= timer.deadline + minWait

\* the dispatcher never settled, the timer fired, the one fallback was sent
C2_Witness ==
  /\ pc = "done"
  /\ IsMessage
  /\ disp.st = "running"
  /\ timer.st = "fired"
  /\ sends.fallback = 1
  /\ client.calls["fallback"].st = "ok"

\* C3: the HTTP response does not wait for the dispatch: when the deadline
\* of a dispatch that never settled is reached, the response was written
\* before it.
C3_ResponseNotHeldByDispatch ==
  timer.st = "fired" => http.status # 0 /\ http.at < timer.deadline

\* C4: no two REST calls of one client start less than minWait apart.
C4_MinIntervalBetweenCalls ==
  \A i, j \in DOMAIN client.log :
    i < j => client.log[j].at - client.log[i].at >= minWait

AuthorOf(ev) ==
  IF ev.event = CommandEvent THEN CommandFromUserId(ev.data) ELSE FromUserId(ev.data)

\* the event's author is the bot the payload names
OwnEvent ==
  /\ event.event \in MessageEvents \cup {CommandEvent}
  /\ Truthy(AuthorOf(event))
  /\ AuthorOf(event) = event.data.botId

\* C5: an event (message or command) whose author id equals the embedded bot
\* id causes no REST call and no agent dispatch.
C5_NoOutboundForOwnEvents ==
  OwnEvent => client.log = <<>> /\ disp.st = "none"
              /\ \A s \in Slots : client.calls[s] = Idle

Terminal == {"Rejected", "Delivered", "FallbackSent"}

\* a handler took the event
Handled == Len(trail) >= 2 /\ trail[2] = "Verifying"

\* C6 as claimed: every handled event ends in Rejected, Delivered or
\* FallbackSent, FallbackSent only after TimedOut or Failed, Delivered only
\* after Dispatching, and never both a delivered reply and a fallback.
C6_StateMachineAsClaimed ==
  /\ (pc = "done" /\ Handled) => Last(trail) \in Terminal
  /\ \A i \in 1..(Len(trail) - 1) :
       /\ trail[i + 1] = "FallbackSent" => trail[i] \in {"TimedOut", "Failed"}
       /\ trail[i + 1] = "Delivered" => trail[i] = "Dispatching"
  /\ ~(sends.replyOk > 0 /\ sends.fallback > 0)

Transitions ==
  { <<"Received", "Verifying">>, <<"Received", "Invalid">>, <<"Received", "Ignored">>,
    <<"Verifying", "Rejected">>, <<"Verifying", "Enriching">>,
    <<"Enriching", "Dispatching">>, <<"Enriching", "Aborted">>,
    <<"Dispatching", "Delivered">>, <<"Dispatching", "TimedOut">>,
    <<"Dispatching", "Failed">>,
    <<"TimedOut", "FallbackSent">>, <<"Failed", "FallbackSent">> }

\* C6 amended: a handled event ends in exactly one of Rejected, Delivered,
\* FallbackSent, or is abandoned before the dispatch when a host collaborator
\* throws while it is enriched or routed (Aborted: nothing dispatched, nothing
\* sent); every step follows the state machine, so FallbackSent is entered
\* only from TimedOut or Failed and Delivered only from Dispatching; one
\* fallback send is made exactly when the event times out or fails; an event
\* that ends Delivered has no fallback sent, while an event that ends
\* FallbackSent may have had agent replies delivered as well.
C6_StateMachine ==
  /\ \A i \in 1..(Len(trail) - 1) : <<trail[i], trail[i + 1]>> \in Transitions
  /\ (pc = "done" /\ Handled) => Last(trail) \in Terminal \cup {"Aborted"}
  /\ pc = "done" <=> Last(trail) \in Terminal \cup {"Aborted", "Invalid", "Ignored"}
  /\ Last(trail) = "Aborted" => disp.st = "none" /\ sends.reply = 0 /\ sends.fallback = 0
  /\ Last(trail) = "Delivered" => sends.fallback = 0
  /\ sends.fallback =
       Cardinality({i \in DOMAIN trail : trail[i] \in {"TimedOut", "Failed"}})
  /\ sends.fallback <= 1
  /\ sends.reply > 0 => \E i \in DOMAIN trail : trail[i] = "Dispatching"

\* an event ended FallbackSent after an agent reply had been delivered
C6_Witness ==
  /\ pc = "done"
  /\ Last(trail) = "FallbackSent"
  /\ sends.replyOk > 0
  /\ sends.fallback = 1

\* C7: a structurally valid event is answered 200 whatever fails in its
\* handler.
C7_HandlerFailuresAnswered200 ==
  (pc = "done" /\ ~event.threw /\ ~StructureInvalid(event)) => http.status = 200

\* C8: a malformed body, also one that starts like JSON and does not parse,
\* is answered 400 and no handler is invoked.
C8_MalformedBodyAnswered400 ==
  (pc = "done" /\ event.threw) => http.status = 400 /\ ~Handled

\* C9: a parsed body without the event field or without the data field is
\* answered 400 and nothing else happens: no verification, no handler, no
\* outbound call.
C9_FailClosedStructure ==
  (body = Consumed /\ ~event.threw /\ (Falsy(event.event) \/ ~event.hasData)) =>
    /\ pc = "structure" \/ (pc = "done" /\ http.status = 400)
    /\ verification = "none"
    /\ ~Handled
    /\ NoSideEffects

\* a JSON body with an event name and no data was answered 400
C9_Witness ==
  /\ pc = "done"
  /\ Truthy(event.event)
  /\ ~event.hasData
  /\ http.status = 400

\* the stored secret, "" when none is configured
ConfiguredSecret == resolveBitrix24Account(cfg).webhookSecret

\* C10 as claimed: the request is accepted iff the supplied secret equals the
\* configured one and the configured one is not empty.
C10_AcceptedIffSecretsEqual ==
  verification # "none" =>
    (verification = "ok" <=> (secret = ConfiguredSecret /\ ConfiguredSecret # ""))

\* C10 amended: the request is accepted iff the configuration loads, the
\* account's domain is not empty, the configured secret is not empty and the
\* supplied secret equals it.
C10_AcceptedIffConfiguredAndEqual ==
  /\ verification \in {"ok", "failed"} =>
       (verification = "ok" <=>
          /\ resolveBitrix24Account(cfg).domain # ""
          /\ ConfiguredSecret # ""
          /\ secret = ConfiguredSecret)
  /\ verification = "error" => pc = "done" /\ http.status = 200

\* the right secret was rejected because the account has no domain
C10_Witness ==
  /\ verification = "failed"
  /\ secret = ConfiguredSecret
  /\ ConfiguredSecret # ""
  /\ resolveBitrix24Account(cfg).domain = ""

\* C11: the comparison of the supplied secret with the stored one takes the
\* same time wherever the first mismatching character is: two wrong secrets
\* of the stored secret's length make it read the same number of characters.
C11_ComparisonTimeIndependentOfMismatch ==
  (unit.fn = "compare" /\ unit.pc = "done" /\ unit.ra.differ /\ unit.rb.differ) =>
    unit.ra.examined = unit.rb.examined

\* C12: whatever the agent-dispatch collaborator does, never settling
\* included, the handling of a request ends and an HTTP response is written,
\* given that every REST call and extractor step returns or throws.
C12_RequestTerminates == <>(pc = "done" /\ http.status # 0)

\* the response was written although the dispatcher never settled
C12_Witness ==
  /\ pc = "done"
  /\ http.status = 200
  /\ disp.st = "running"
  /\ disp.delivers = 0
  /\ timer.st = "fired"
  /\ ~IsMessage

\* C13: whenever the voice extractor has returned - after a transcription, a
\* failed transcription or an exception - neither the temporary audio file
\* nor a converted file it created is on disk.
C13_NoTempFilesAtReturn ==
  (Extracting("voice") /\ unit.pc = "returned") => unit.disk \cap {"mp3", "wav"} = {}

\* a part of a returned text
Holds(t, part) == \E i \in DOMAIN t : t[i] = part

\* C15: an extractor whose extraction failed has returned a placeholder that
\* contains the attachment's file name and its formatted size.
C15_FailurePlaceholderHasNameAndSize ==
  (unit.fn = "extract" /\ unit.pc = "returned" /\ unit.failed)
    => /\ Holds(unit.result, NameOf(unit.in.att))
       /\ Holds(unit.result, formatFileSize(unit.in.att.size))

\* how often the dispatcher was invoked for the event
Dispatches == Cardinality({i \in DOMAIN trail : trail[i] = "Dispatching"})

\* the enrichment of a message: disk.file.get of the referenced file, the
\* file-info loop, the download-and-extract loop
Enriching == {"m_fileget", "m_enh", "m_info", "m_proc"}

\* a step of the enrichment leaves the handler in the pipeline
EnrichmentGoesOn ==
  pc \in Enriching =>
    (pc' \in Enriching \cup {"m_loadcfg", "m_route"} /\ http' = http /\ trail' = trail)

\* C14: no step of the enrichment, failed or not, ends the handling of a
\* verified message event: the handler goes on towards the dispatch; the
\* dispatcher is never invoked twice, and when the handler has returned
\* without a throw of the configuration loading or the routing, the
\* dispatcher was invoked once.
C14_EnrichmentFailureNeverAborts ==
  /\ [][EnrichmentGoesOn]_vars
  /\ [](Dispatches <= 1)
  /\ []((pc = "done" /\ IsMessage /\ verification = "ok"
         /\ (\A i \in DOMAIN trail : trail[i] # "Aborted"))
        => Dispatches = 1)

\* dispatched with two attachments, none of them described
C14_Witness ==
  /\ IsMessage
  /\ disp.st = "running"
  /\ disp.files = 2
  /\ disp.described = 0
  /\ Dispatches = 1

\* a message event without text and without attachment indicator
NoTextNoIndicator ==
  IsMessage /\ IsBlank(event.data.message) /\ ~hasAttachment(event.data)

\* C16 as claimed: a message event with no text and no attachment indicator
\* (no file count, no high-numbered reference id) is never dispatched and
\* causes no outbound call.
C16_DroppedAsClaimed ==
  NoTextNoIndicator => (disp.st = "none" /\ client.log = <<>>)

\* C16: a message event with no text, no attachment indicator and no entry
\* in its data.ATTACHMENTS list is never dispatched and causes no outbound
\* call.
C16_DroppedWithoutDispatch ==
  (NoTextNoIndicator /\ event.data.attachmentsLen = 0)
    => (disp.st = "none" /\ client.log = <<>>)

\* such a message, from a user, has been handled and answered
C16_Witness ==
  /\ NoTextNoIndicator
  /\ event.data.attachmentsLen = 0
  /\ Truthy(FromUserId(event.data))
  /\ FromUserId(event.data) # event.data.botId
  /\ pc = "done"
  /\ http.status = 200

\* C17: a deliver callback, of a message or of a command, never asks the
\* client to send or answer with a blank message.
C17_NoBlankMessageSent ==
  (unit.fn = "deliver" /\ unit.pc = "done" /\ unit.r.outcome = "call")
    => ~IsBlank(unit.r.call.MESSAGE)

\* C18: for a command event every non-blank output is replied with
\* imbot.command.answer when the message id and the command's id or name are
\* there, and with imbot.message.add otherwise.
C18_AnswerOrSend ==
  (unit.fn = "deliver" /\ unit.pc = "done" /\ ~unit.isMsg
   /\ ~IsBlank(PayloadText(unit.payload)))
    => /\ unit.r.outcome = "call"
       /\ unit.r.call.method =
            IF Truthy(unit.data.messageId)
               /\ (Truthy(unit.data.commandId) \/ Truthy(unit.data.command))
            THEN "imbot.command.answer"
            ELSE "imbot.message.add"

\* the form-encoded request of user 42 with the text "hello", verified
HelloVerified ==
  /\ event.event = "ONIMMESSAGEADD"
  /\ event.data = HelloFrom42
  /\ verification = "ok"

\* C19: for the form-encoded ONIMMESSAGEADD request with MESSAGE "hello" and
\* FROM_USER_ID 42 and the right secret, the dispatcher is invoked with a
\* context whose body holds "hello", and the reply "hi back" it delivers is
\* sent with imbot.message.add to dialog 42 with the text "hi back".
C19_EndToEnd ==
  HelloVerified =>
    /\ disp.st # "none" => disp.body = Hello
    /\ (pc = "done" /\ \A i \in DOMAIN trail : trail[i] # "Aborted") => Dispatches = 1
    /\ sends.reply > 0 =>
         sends.last = [NoCall EXCEPT !.method = "imbot.message.add",
                                     !.DIALOG_ID = "42", !.MESSAGE = HiBack]

\* the reply "hi back" to "hello" went out and was accepted
C19_Witness ==
  /\ HelloVerified
  /\ disp.body = Hello
  /\ sends.last.MESSAGE = HiBack
  /\ sends.last.DIALOG_ID = "42"
  /\ sends.replyOk = 1

\* the heavy part of the handling: file lookups, downloads and extraction,
\* the dispatch and what follows it
Heavy == Enriching \cup {"m_loadcfg", "m_route", "dispatching", "fallback"}

\* the typing call settles and nothing but the client changes
TypingForgotten ==
  (client.calls["typing"].st = "inflight" /\ client'.calls["typing"].st # "inflight")
    => (pc' = pc /\ http' = http /\ trail' = trail /\ disp' = disp
        /\ attachments' = attachments /\ sends' = sends)

\* C20: the typing call is the first outbound call of a verified event, made
\* before any file lookup, download, extraction or dispatch; the handler
\* does not wait for it, and whether it fails or not changes nothing in the
\* handling: a verified message whose handler returned without a throw of
\* the configuration loading or the routing was dispatched.
C20_TypingFirstAndForgotten ==
  /\ []((pc \in Heavy \/ client.log # <<>> \/ disp.st # "none")
        => /\ verification = "ok"
           /\ client.log # <<>>
           /\ client.log[1].slot = "typing"
           /\ client.log[1].method = "imbot.chat.sendTyping")
  /\ [][TypingForgotten]_vars
  /\ []((pc = "done" /\ IsMessage /\ verification = "ok"
         /\ client.calls["typing"].st = "failed"
         /\ (\A i \in DOMAIN trail : trail[i] # "Aborted"))
        => Dispatches = 1)

\* the typing call failed, and the message was enriched and dispatched all
\* the same
C20_Witness ==
  /\ IsMessage
  /\ client.calls["typing"].st = "failed"
  /\ disp.st = "running"
  /\ disp.files > 0
  /\ disp.described > 0

\* the voice extractor returned the transcription-failed placeholder
TranscriptionFailed ==
  /\ Extracting("voice")
  /\ unit.pc = "returned"
  /\ unit.failed
  /\ unit.error \notin {"none", "text"}

Categorized(t, n) ==
  unit.fn = "categorize" /\ unit.pc = "done" /\ unit.mimeType = t /\ unit.fileName = n

\* C23: (audio/ogg, voice_msg.oga) is categorized as voice, (application/pdf,
\* invoice.pdf) as document and (no MIME type, photo.jpg) as image.
C23_CategorizedAsClaimed ==
  /\ Categorized(<<"a", "u", "d", "i", "o", "/", "o", "g", "g">>,
                 <<"v", "o", "i", "c", "e", "_", "m", "s", "g", ".", "o", "g", "a">>) => unit.category = "voice"
  /\ Categorized(<<"a", "p", "p", "l", "i", "c", "a", "t", "i", "o", "n", "/", "p", "d", "f">>,
                 <<"i", "n", "v", "o", "i", "c", "e", ".", "p", "d", "f">>) => unit.category = "document"
  /\ Categorized(<<>>, <<"p", "h", "o", "t", "o", ".", "j", "p", "g">>) => unit.category = "image"

\* the first of the three settings that is set, in lower case; "auto" if none
SettingInForce ==
  LET i == unit.in
      first == IF Truthy(i.account) THEN i.account
               ELSE IF Truthy(i.global) THEN i.global
               ELSE IF Truthy(i.env) THEN i.env ELSE "auto"
  IN IF first = "QWEN" THEN "qwen" ELSE first

\* C22: once the voice extractor has selected its provider, the provider is
\* the account's setting if there is one, else the global setting, else the
\* environment's; it was selected without a probe if that setting names a
\* provider, and in automatic mode it is the local service if and only if
\* the reachability probe succeeded, the cloud provider otherwise.
C22_ProviderByPriority ==
  (Extracting("voice") /\ unit.provider # "none")
    => /\ SettingInForce \in {"qwen", "openai"}
            => unit.provider = SettingInForce /\ unit.probe = "none"
       /\ SettingInForce = "auto"
            => /\ unit.probe \in {"ok", "failed"}
               /\ unit.provider = "qwen" <=> unit.probe = "ok"
               /\ unit.provider = "openai" <=> unit.probe = "failed"

\* the global setting decides although the environment names the other one
C22_Witness ==
  /\ Extracting("voice")
  /\ unit.in.account = UNDEF
  /\ unit.in.global = "openai"
  /\ unit.in.env = "qwen"
  /\ unit.provider = "openai"
  /\ unit.pc = "returned"

\* C24: once an event has been parsed from its JSON text and from its
\* form-encoded text, the two results give the handlers the same event type
\* and the same PARAMS, USER, BOT and COMMAND fields
C24_EncodingsEquivalent ==
  (unit.fn = "parse" /\ unit.parsed = {"json", "form"})
    => Normalized(unit.json) = Normalized(unit.form)

\* C25: a bulk operation on the commands issues no imbot.command.update call
\* before it has issued an imbot.command.get call
C25_ListFetchedBeforeUpdate ==
  unit.fn = "commands" =>
    \A k \in DOMAIN unit.calls :
      unit.calls[k].method = "imbot.command.update" =>
        \E j \in 1..(k - 1) : unit.calls[j].method = "imbot.command.get"

\* the dispatch starts for a message that pointed at a file: the attachment
\* list formatted into the body has an entry for that file
ReferencedFileInBody ==
  (disp.st # "running" /\ disp'.st = "running" /\ IsMessage
     /\ event.data.fileRef # 0 /\ hasAttachmentIndicator(event.data))
    => \E i \in DOMAIN attachments : attachments[i].id = event.data.fileRef

\* C26: whatever became of the disk.file.get call for the file a message
\* points at, the body handed to the dispatcher has an entry (at least a
\* placeholder naming the id) for that file
C26_PlaceholderForMissingMetadata == [][ReferencedFileInBody]_vars

\* the tags of a text in the CRM's markup with their nesting and content:
\* tag names in lower case, a URL the same with or without its plain tag
Structure(t) ==
  LET lower == [i \in DOMAIN t |->
                  CASE t[i] = "B" -> "b" [] t[i] = "I" -> "i" [] t[i] = "U" -> "u"
                    [] t[i] = "R" -> "r" [] t[i] = "L" -> "l" [] OTHER -> t[i]]
  IN ReplacePairs(lower, <<"[", "u", "r", "l", "]">>, <<"[", "/", "u", "r", "l", "]">>,
                  0, <<>>, <<>>)

\* C27: a text of bold, italic, link and plain URL that went from the CRM's
\* markup to markdown and back has the tags, nesting and content it had, and
\* a second round trip gives the text of the first
C27_RoundTripKeepsStructure ==
  (unit.fn = "markup" /\ unit.form = "bb" /\ unit.trips >= 1)
    => /\ Structure(unit.text) = Structure(unit.bb)
       /\ unit.trips >= 2 => unit.text = unit.first

\* C28: a fallback message has the timeout wording if and only if the timer
\* of withTimeout ended the dispatch; after any other dispatch error it has
\* the generic wording
C28_TimeoutWordingIffDeadline ==
  sends.fallback >= 1 =>
    /\ sends.wording = "timeout" <=> outer = "timeout"
    /\ sends.wording = "generic" <=> outer = "error"

\* the fallback send has failed
FallbackFailed == client.calls["fallback"].st = "failed"

\* after a failed fallback send no fallback is sent again
NoSecondFallback ==
  FallbackFailed =>
    (client'.calls["fallback"] = client.calls["fallback"] /\ sends'.fallback = sends.fallback
       /\ http' = http /\ pc' = pc)

\* C29: when the send of the fallback message has failed, the handler has
\* returned and the request is answered with 200; exactly one fallback send
\* was attempted, and none is attempted afterwards
C29_FallbackBestEffort ==
  /\ [](FallbackFailed => (pc = "done" /\ http.status = 200 /\ sends.fallback = 1))
  /\ [][NoSecondFallback]_vars

\* the fallback send failed after a dispatch error, and the request is answered
C29_Witness ==
  /\ FallbackFailed
  /\ outer \in {"error", "timeout"}
  /\ http.status = 200

\* the times at which the client of handler r let a call through
Passed(r) ==
  {unit.clients[r].log[i].at : i \in DOMAIN unit.clients[r].log}

\* C30: the calls made while two requests of one account are handled are
\* throttled against one last-request timestamp: two calls of different
\* handlers are at least minWait apart
C30_ThrottledAcrossRequests ==
  unit.fn = "requests" =>
    \A a \in Passed(1), b \in Passed(2) : a - b >= minWait \/ b - a >= minWait

\* C31: the temporary files of two request flows have different paths, and
\* a flow finds its file where it wrote it as long as it has not deleted it
C31_TempPathsNeverCoincide ==
  unit.fn = "temp" =>
    /\ \A r \in Handlers : \A q \in Handlers \ {r} :
         unit.flows[r].tempPath # <<>> => unit.flows[r].tempPath # unit.flows[q].tempPath
    /\ \A r \in Handlers :
         /\ unit.flows[r].found
         /\ unit.flows[r].at \in {"written", "read"} => unit.flows[r].tempPath \in unit.disk

\* C32: when an extractor has returned, every temporary file it left on disk
\* is one whose deletion is under way
C32_TempFilesReleased ==
  (unit.fn = "extract" /\ unit.pc = "returned") => unit.disk \subseteq unit.unlinks

\* the file name of the categorized attachment contains "voice" or "recording"
VoiceKeywordInName ==
  LET name == toLowerCase(unit.fileName)
  IN /\ unit.fn = "categorize"
     /\ unit.pc = "done"
     /\ \/ includes(name, <<"v", "o", "i", "c", "e">>)
        \/ includes(name, <<"r", "e", "c", "o", "r", "d", "i", "n", "g">>)

\* C33 as claimed: for every (mimeType, filename) whose file name contains
\* "voice" or "recording" the category is voice.
C33_KeywordForcesVoice ==
  VoiceKeywordInName => unit.category = "voice"

\* C33: a file name containing "voice" or "recording" gives the voice
\* category unless the MIME type starts with image/ or video/ or the name
\* ends in an image or video extension; these are image or video.
C33_KeywordForcesVoiceUnlessPicture ==
  LET type == toLowerCase(unit.mimeType)
      name == toLowerCase(unit.fileName)
      picture == \/ startsWith(type, <<"i", "m", "a", "g", "e", "/">>)
                 \/ startsWith(type, <<"v", "i", "d", "e", "o", "/">>)
                 \/ hasExtension(name, {<<"j", "p", "g">>, <<"j", "p", "e", "g">>, <<"p", "n", "g">>,
                                        <<"g", "i", "f">>, <<"w", "e", "b", "p">>, <<"b", "m", "p">>,
                                        <<"s", "v", "g">>, <<"m", "p", "4">>, <<"a", "v", "i">>,
                                        <<"m", "o", "v">>, <<"m", "k", "v">>, <<"w", "e", "b", "m">>})
  IN VoiceKeywordInName =>
       IF picture THEN unit.category \in {"image", "video"} ELSE unit.category = "voice"

\* recording.doc with a generic audio MIME type is voice
C33_Witness ==
  /\ VoiceKeywordInName
  /\ unit.mimeType = <<"a", "u", "d", "i", "o", "/", "m", "p", "e", "g">>
  /\ unit.fileName = <<"r", "e", "c", "o", "r", "d", "i", "n", "g", ".", "d", "o", "c">>
  /\ unit.category = "voice"

\* the provider a label of the attempted-provider trail names
ProviderNamed(label) ==
  IF label \in {"Qwen3-ASR", "Qwen3-ASR (fallback)"} THEN "qwen" ELSE "openai"

\* C34: when the voice extractor returns, the providers named by its trail
\* of attempted providers are exactly the providers that were called during
\* the run.
C34_TrailListsProvidersCalled ==
  (unit.fn = "extract" /\ unit.pc = "returned" /\ unit.in.att.category = "voice") =>
    {ProviderNamed(unit.tried[i]) : i \in DOMAIN unit.tried} = unit.ran

\* C35: a form-encoded body that carries a key with an unknown bracket path
\* gives the same event, PARAMS, USER, BOT, COMMAND and auth fields as the
\* body without that key.
C35_UnknownKeysIgnored ==
  (unit.fn = "parse" /\ unit.unknown # <<>>) =>
    /\ Normalized(unit.withUnknown) = Normalized(parseForm(unit.logical))
    /\ Get(unit.withUnknown, <<"auth", "application_token">>)
         = Get(parseForm(unit.logical), <<"auth", "application_token">>)

\* showAllCommands has returned its summary
ShowAllReturned ==
  unit.fn = "commands" /\ unit.op = "showAllCommands" /\ unit.pc = "done"

\* C36: in the summary of showAllCommands there is one entry for each
\* command of the fetched list; alreadyVisible is the number of commands
\* listed as not hidden, none of which got an update call; updated is the
\* number of hidden commands that are visible in the CRM afterwards; and
\* every hidden command got its update call, whatever became of the others.
C36_ShowAllAccounting ==
  ShowAllReturned =>
    LET listed == DOMAIN unit.commands
        hidden == {k \in listed : unit.commands[k].HIDDEN = "Y"}
        called == {unit.calls[j].COMMAND_ID :
                     j \in {c \in DOMAIN unit.calls :
                              unit.calls[c].method = "imbot.command.update"}}
    IN /\ Len(unit.results) = Len(unit.commands)
       /\ unit.alreadyVisible = Cardinality(listed \ hidden)
       /\ \A k \in listed \ hidden : unit.commands[k].ID \notin called
       /\ \A k \in hidden : unit.commands[k].ID \in called
       /\ unit.updated = Cardinality({k \in hidden : unit.crm[k].HIDDEN = "N"})

\* the promise withTimeout returned has settled
Settled == outer \in {"resolved", "error", "timeout"}

\* once settled, the promise keeps its outcome, and an outcome of the
\* wrapped promise that arrives afterwards leaves the handler as it is: no
\* fallback message, no answer, no step of the handler
SettlesOnce ==
  Settled =>
    /\ outer' = outer
    /\ (disp'.st # disp.st =>
          (sends'.fallback = sends.fallback /\ pc' = pc /\ http' = http /\ trail' = trail))

\* C37: withTimeout settles once. If the wrapped promise settled first, the
\* outcome is the wrapped promise's and the timer is cancelled for good; if
\* not, the outcome is the timeout error, raised at the deadline or later. A
\* wrapped promise that settles after the deadline changes nothing in the
\* handler: at most one fallback message is ever sent, and its rejection is
\* taken by the catch callback of withTimeout.
C37_WithTimeoutSettlesOnce ==
  /\ [](/\ outer \in {"resolved", "error"} =>
             (timer.st = "cleared"
                /\ disp.st = (IF outer = "resolved" THEN "resolved" ELSE "rejected"))
        /\ outer = "timeout" => (timer.st = "fired" /\ now >= timer.deadline)
        /\ disp.st \in {"resolved", "rejected"} => (Settled /\ timer.st # "armed")
        /\ sends.fallback <= 1)
  /\ [][SettlesOnce]_vars

\* the dispatcher's promise rejected after the deadline had passed
C37_Witness ==
  /\ outer = "timeout"
  /\ disp.st = "rejected"
  /\ sends.fallback = 1

\* C38: the merged attachment list holds no two entries with the same
\* attachment id.
C38_NoDuplicateAttachmentIds ==
  (unit.fn = "merge" /\ unit.pc = "merged") =>
    \A i \in DOMAIN unit.attachments :
      \A j \in DOMAIN unit.attachments \ {i} :
        unit.attachments[i].id # unit.attachments[j].id

\* C39: for a message event, the reply of the deliver callback and the
\* fallback message of the catch block are sent to the dialog of the event's
\* author, not to the chat the event names.
C39_RepliesGoToAuthor ==
  (unit.fn = "deliver" /\ unit.isMsg /\ unit.pc \in {"done", "failed"}
   /\ unit.r.outcome = "call")
    => /\ unit.r.call.method = "imbot.message.add"
       /\ unit.r.call.DIALOG_ID = unit.data.fromUserId
       /\ unit.r.call.DIALOG_ID # "chat5"

\* the fallback message for a message written in a group chat
C39_Witness ==
  /\ unit.fn = "deliver"
  /\ unit.isMsg
  /\ unit.data.dialogId = "chat5"
  /\ unit.pc = "failed"
  /\ unit.r.call.DIALOG_ID = "42"

====
